---- MODULE Spec2Model ----
\* Model of contracts/FlashUSDT.sol: the tranche ledger of the Flash USDT token.
\* Every external call is one atomic step (an EVM transaction); a revert
\* discards every storage write and every event of the call.
\* transferFrom reaches the same _transfer as transfer once the allowance is
\* spent, so both are the Transfer step. approve, setContractMetadataURI and
\* the Ownable transfer/renounce calls do not touch the ledger and are left out:
\* the owner is the constructor's initialOwner throughout.
\* Amounts stay far below 2^256 and timestamps below 2^64, so the checked
\* arithmetic of Solidity 0.8 never overflows here.
\*
\* Second part: the tx:send handler of the desktop app's main process
\* (src/main.js and its other revision unnamed/part_001) with the history file
\* it keeps. The chain, the RPC node and the configuration files are the
\* environment: their answers are inputs of each request. The handler runs to
\* its return without interleaving (its only awaits are calls of the
\* environment); the callbacks of tx.wait() run later, one per transaction.
\*
\* Specifications: Spec (the contract's external calls), BurnSpec (Spec with the
\* internal burn), LoopSpec (the tranche loops one iteration per step), AppSpec
\* (tx:send and the receipts), HistorySpec (the same from a full history file),
\* RendererSpec (the valuation panel of renderer/renderer.js).
EXTENDS Integers, Sequences, FiniteSets, TLC

\* ---------------------------------------------------------------- bounds
MaxTime   == 1      \* block.timestamp ranges over 0..MaxTime
MaxSupply == 3      \* mintFlash is not explored once totalSupply would exceed this
MaxTx     == 2      \* transactions the desktop app broadcasts in one behaviour
MaxLen    == 3      \* records in a tranche array handed to a loop on its own
MaxTimers == 3      \* valuation timers the renderer creates in one behaviour

\* ---------------------------------------------------------------- inputs explored
ZeroAddress  == 0                   \* address(0)
Holders      == {1, 2}              \* the non-zero addresses
Addr         == Holders \cup {ZeroAddress}
InitialOwner == 1                   \* constructor argument initialOwner
Amounts      == {0, 1, 2}           \* amounts passed to mintFlash and transfer
Expiries     == {0, 1, 2, 3}        \* expiresAt values passed to mintFlash
SweepLists   == {<<>>, <<1>>, <<2, 1>>, <<1, 0, 1>>}   \* lists passed to sweepExpired

\* ---------------------------------------------------------------- state
VARIABLES
    flash,        \* _flashBalances : address -> FlashBalance[]
    balances,     \* ERC20 _balances
    totalSupply,  \* ERC20 _totalSupply
    bypassHook,   \* _bypassHook
    owner,        \* Ownable _owner
    now,          \* block.timestamp
    events,       \* the events emitted by the most recent call (empty if it reverted)
    last          \* the most recent call: function, outcome, return value, timestamp

VARIABLES
    build,        \* the revision of the main process that is running
    history,      \* tx-history.json: entries [id, status], newest first
    waiting,      \* the tx.wait() promise of each transaction: unsettled or its outcome
    txCount,      \* the number of transactions broadcast so far
    reply         \* what the most recent tx:send request came back with

VARIABLES
    loop          \* the tranche loop being executed one iteration at a time, if any

VARIABLES
    renderer      \* the renderer's valuation panel, its timer and its refreshes in flight

ledgerVars == <<flash, balances, totalSupply, bypassHook, owner, now, events, last>>

appVars == <<build, history, waiting, txCount, reply>>

vars == <<flash, balances, totalSupply, bypassHook, owner, now, events, last,
          build, history, waiting, txCount, reply, loop, renderer>>

\* struct FlashBalance { uint256 amount; uint64 expiresAt; }
FlashBalance(amount, expiresAt) == [amount |-> amount, expiresAt |-> expiresAt]

\* The storage a call works on, threaded through the internal functions.
\* ok = FALSE once a require / revert has fired.
Storage == [flash |-> flash, balances |-> balances, totalSupply |-> totalSupply,
            bypassHook |-> bypassHook, events |-> <<>>, ok |-> TRUE, err |-> ""]

\* require(cond, reason) failing / revert CustomError()
Revert(s, reason) == [s EXCEPT !.ok = FALSE, !.err = reason]

Emit(s, e) == [s EXCEPT !.events = Append(@, e)]

\* ---------------------------------------------------------------- views
RECURSIVE SumAmounts(_)
SumAmounts(tr) ==
    IF tr = <<>> THEN 0 ELSE tr[1].amount + SumAmounts(Tail(tr))

\* activeBalanceOf with the comparison written block.timestamp <= expiresAt
RECURSIVE ActiveSumInclusive(_, _, _)
ActiveSumInclusive(tr, i, t) ==
    IF i > Len(tr) THEN 0
    ELSE (IF t <= tr[i].expiresAt THEN tr[i].amount ELSE 0)
         + ActiveSumInclusive(tr, i + 1, t)

\* activeBalanceOf, over a given tranche array at a given timestamp
RECURSIVE ActiveSum(_, _, _)
ActiveSum(tr, i, t) ==
    IF i > Len(tr) THEN 0
    ELSE (IF t < tr[i].expiresAt THEN tr[i].amount ELSE 0) + ActiveSum(tr, i + 1, t)

\* expiredBalanceOf with the comparison written block.timestamp > expiresAt
RECURSIVE ExpiredSumStrict(_, _, _)
ExpiredSumStrict(tr, i, t) ==
    IF i > Len(tr) THEN 0
    ELSE (IF t > tr[i].expiresAt THEN tr[i].amount ELSE 0) + ExpiredSumStrict(tr, i + 1, t)

\* expiredBalanceOf, over a given tranche array at a given timestamp
RECURSIVE ExpiredSum(_, _, _)
ExpiredSum(tr, i, t) ==
    IF i > Len(tr) THEN 0
    ELSE (IF t >= tr[i].expiresAt THEN tr[i].amount ELSE 0) + ExpiredSum(tr, i + 1, t)

activeBalanceOf(account) == ActiveSum(flash[account], 1, now)

expiredBalanceOf(account) == ExpiredSum(flash[account], 1, now)

balanceOf(account) == balances[account]

flashBalancesOf(account) == flash[account]

\* ---------------------------------------------------------------- ERC20 base
\* ERC20._update (OpenZeppelin 5.x), reached through super._update.
ERC20Update(s, from, to, value) ==
    IF ~s.ok THEN s
    ELSE IF from # ZeroAddress /\ s.balances[from] < value
         THEN Revert(s, "ERC20InsufficientBalance")
    ELSE LET b1 == IF from = ZeroAddress THEN s.balances
                   ELSE [s.balances EXCEPT ![from] = @ - value]
             t1 == IF from = ZeroAddress THEN s.totalSupply + value ELSE s.totalSupply
             b2 == IF to = ZeroAddress THEN b1 ELSE [b1 EXCEPT ![to] = @ + value]
             t2 == IF to = ZeroAddress THEN t1 - value ELSE t1
         IN Emit([s EXCEPT !.balances = b2, !.totalSupply = t2],
                 [name |-> "Transfer", from |-> from, to |-> to, value |-> value])

\* ---------------------------------------------------------------- tranche helpers
\* tranches[i] = tranches[tranches.length - 1]; tranches.pop();   (1-based i)
SwapPop(tr, i) == SubSeq([tr EXCEPT ![i] = tr[Len(tr)]], 1, Len(tr) - 1)

\* _appendTranche without the merge: always pushes a record
AppendTrancheAlwaysPush(tr, amount, expiresAt) ==
    Append(tr, [amount |-> amount, expiresAt |-> expiresAt])

\* _appendTranche comparing with the first record instead of the latest
AppendTrancheFirst(tr, amount, expiresAt) ==
    IF Len(tr) > 0 /\ tr[1].expiresAt = expiresAt
    THEN [tr EXCEPT ![1].amount = @ + amount]
    ELSE Append(tr, [amount |-> amount, expiresAt |-> expiresAt])

\* _appendTranche on one tranche array
AppendTranche(tr, amount, expiresAt) ==
    IF Len(tr) > 0 /\ tr[Len(tr)].expiresAt = expiresAt
    THEN [tr EXCEPT ![Len(tr)].amount = @ + amount]
    ELSE Append(tr, FlashBalance(amount, expiresAt))

\* the loop of _syncExpiry advancing i after a removal too, so that the record
\* swapped in from the end is never examined
RECURSIVE SyncLoopSkip(_, _, _, _)
SyncLoopSkip(tr, i, burned, t) ==
    IF i <= Len(tr)
    THEN IF t >= tr[i].expiresAt
         THEN SyncLoopSkip(SwapPop(tr, i), i + 1, burned + tr[i].amount, t)
         ELSE SyncLoopSkip(tr, i + 1, burned, t)
    ELSE <<tr, burned>>

\* the loop of _syncExpiry with the comparison written block.timestamp > expiresAt
RECURSIVE SyncLoopStrict(_, _, _, _)
SyncLoopStrict(tr, i, burned, t) ==
    IF i <= Len(tr)
    THEN IF t > tr[i].expiresAt
         THEN SyncLoopStrict(SwapPop(tr, i), i, burned + tr[i].amount, t)
         ELSE SyncLoopStrict(tr, i + 1, burned, t)
    ELSE <<tr, burned>>

\* the loop of _syncExpiry with tranches.pop() alone, without the copy of the
\* last record into slot i
RECURSIVE SyncLoopPopOnly(_, _, _, _)
SyncLoopPopOnly(tr, i, burned, t) ==
    IF i <= Len(tr)
    THEN IF t >= tr[i].expiresAt
         THEN SyncLoopPopOnly(SubSeq(tr, 1, Len(tr) - 1), i, burned + tr[i].amount, t)
         ELSE SyncLoopPopOnly(tr, i + 1, burned, t)
    ELSE <<tr, burned>>

\* the while loop of _syncExpiry: <<tranches left, burnedAmount>>
RECURSIVE SyncLoop(_, _, _, _)
SyncLoop(tr, i, burned, t) ==
    IF i <= Len(tr)
    THEN IF t >= tr[i].expiresAt
         THEN SyncLoop(SwapPop(tr, i), i, burned + tr[i].amount, t)
         ELSE SyncLoop(tr, i + 1, burned, t)
    ELSE <<tr, burned>>

\* _syncExpiry removing the expired records without burning their amount
SyncExpiryNoBurn(s, account, t) ==
    IF ~s.ok THEN <<s, 0>>
    ELSE LET r == SyncLoop(s.flash[account], 1, 0, t)
         IN IF r[2] > 0
            THEN <<Emit([s EXCEPT !.flash[account] = r[1]],
                        [name |-> "ExpiredBalanceBurned", account |-> account,
                         amount |-> r[2], burnedAt |-> t]), r[2]>>
            ELSE <<[s EXCEPT !.flash[account] = r[1]], 0>>

\* _syncExpiry without _bypassHook = false after the burn
SyncExpiryKeepBypass(s, account, t) ==
    IF ~s.ok THEN <<s, 0>>
    ELSE LET r      == SyncLoop(s.flash[account], 1, 0, t)
             burned == r[2]
             s1     == [s EXCEPT !.flash[account] = r[1]]
         IN IF burned > 0
            THEN LET s2 == [s1 EXCEPT !.bypassHook = TRUE]
                     s3 == ERC20Update(s2, account, ZeroAddress, burned)
                 IN <<Emit(s3, [name |-> "ExpiredBalanceBurned", account |-> account,
                                amount |-> burned, burnedAt |-> t]), burned>>
            ELSE <<s1, 0>>

\* _syncExpiry(account): <<storage after, burnedAmount>>
SyncExpiry(s, account, t) ==
    IF ~s.ok THEN <<s, 0>>
    ELSE LET r      == SyncLoop(s.flash[account], 1, 0, t)
             burned == r[2]
             s1     == [s EXCEPT !.flash[account] = r[1]]
         IN IF burned > 0
            THEN LET s2 == [s1 EXCEPT !.bypassHook = TRUE]
                     s3 == ERC20Update(s2, account, ZeroAddress, burned)
                     s4 == [s3 EXCEPT !.bypassHook = FALSE]
                 IN <<Emit(s4, [name |-> "ExpiredBalanceBurned", account |-> account,
                                amount |-> burned, burnedAt |-> t]), burned>>
            ELSE <<s1, 0>>

\* the loop of _moveTranches reading tranches[i].amount once, before the append,
\* and writing back amount - take
RECURSIVE MoveLoopCached(_, _, _, _, _)
MoveLoopCached(fl, from, to, remaining, i) ==
    IF remaining > 0 /\ i <= Len(fl[from])
    THEN LET cached == fl[from][i].amount
             take == IF cached <= remaining THEN cached ELSE remaining
             fl1  == [fl EXCEPT ![to] = AppendTranche(@, take, fl[from][i].expiresAt)]
             fl2  == [fl1 EXCEPT ![from][i].amount = cached - take]
         IN IF fl2[from][i].amount = 0
            THEN MoveLoopCached([fl2 EXCEPT ![from] = SwapPop(@, i)], from, to,
                                remaining - take, i)
            ELSE MoveLoopCached(fl2, from, to, remaining - take, i + 1)
    ELSE <<fl, remaining>>

\* the loop of _moveTranches appending with the expiresAt of the sender's last
\* record instead of tranches[i].expiresAt
RECURSIVE MoveLoopLastExpiry(_, _, _, _, _)
MoveLoopLastExpiry(fl, from, to, remaining, i) ==
    IF remaining > 0 /\ i <= Len(fl[from])
    THEN LET take == IF fl[from][i].amount <= remaining
                     THEN fl[from][i].amount ELSE remaining
             fl1  == [fl EXCEPT ![to] = AppendTranche(@, take,
                                            fl[from][Len(fl[from])].expiresAt)]
             fl2  == [fl1 EXCEPT ![from][i].amount = @ - take]
         IN IF fl2[from][i].amount = 0
            THEN MoveLoopLastExpiry([fl2 EXCEPT ![from] = SwapPop(@, i)], from, to,
                                    remaining - take, i)
            ELSE MoveLoopLastExpiry(fl2, from, to, remaining - take, i + 1)
    ELSE <<fl, remaining>>

\* a removal that keeps the order of the remaining records
RemoveAt(tr, i) == SubSeq(tr, 1, i - 1) \o SubSeq(tr, i + 1, Len(tr))

\* the loop of _moveTranches with an order-preserving removal of an emptied
\* record in place of the swap with the last record
RECURSIVE MoveLoopOrdered(_, _, _, _, _)
MoveLoopOrdered(fl, from, to, remaining, i) ==
    IF remaining > 0 /\ i <= Len(fl[from])
    THEN LET take == IF fl[from][i].amount <= remaining
                     THEN fl[from][i].amount ELSE remaining
             fl1  == [fl EXCEPT ![to] = AppendTranche(@, take, fl[from][i].expiresAt)]
             fl2  == [fl1 EXCEPT ![from][i].amount = @ - take]
         IN IF fl2[from][i].amount = 0
            THEN MoveLoopOrdered([fl2 EXCEPT ![from] = RemoveAt(@, i)], from, to,
                                 remaining - take, i)
            ELSE MoveLoopOrdered(fl2, from, to, remaining - take, i + 1)
    ELSE <<fl, remaining>>

\* the loop of _moveTranches without the removal of an emptied record
RECURSIVE MoveLoopKeepEmpty(_, _, _, _, _)
MoveLoopKeepEmpty(fl, from, to, remaining, i) ==
    IF remaining > 0 /\ i <= Len(fl[from])
    THEN LET take == IF fl[from][i].amount <= remaining
                     THEN fl[from][i].amount ELSE remaining
             fl1  == [fl EXCEPT ![to] = AppendTranche(@, take, fl[from][i].expiresAt)]
             fl2  == [fl1 EXCEPT ![from][i].amount = @ - take]
         IN MoveLoopKeepEmpty(fl2, from, to, remaining - take, i + 1)
    ELSE <<fl, remaining>>

\* the while loop of _moveTranches over the whole mapping (from and to may be
\* the same array): <<mapping after, remaining>>
RECURSIVE MoveLoop(_, _, _, _, _)
MoveLoop(fl, from, to, remaining, i) ==
    IF remaining > 0 /\ i <= Len(fl[from])
    THEN LET take == IF fl[from][i].amount <= remaining
                     THEN fl[from][i].amount ELSE remaining
             fl1  == [fl EXCEPT ![to] = AppendTranche(@, take, fl[from][i].expiresAt)]
             fl2  == [fl1 EXCEPT ![from][i].amount = @ - take]
         IN IF fl2[from][i].amount = 0
            THEN MoveLoop([fl2 EXCEPT ![from] = SwapPop(@, i)], from, to,
                          remaining - take, i)
            ELSE MoveLoop(fl2, from, to, remaining - take, i + 1)
    ELSE <<fl, remaining>>

\* _moveTranches(from, to, amount)
MoveTranches(s, from, to, amount) ==
    IF ~s.ok THEN s
    ELSE LET r == MoveLoop(s.flash, from, to, amount, 1)
         IN IF r[2] = 0 THEN [s EXCEPT !.flash = r[1]]
            ELSE Revert(s, "Insufficient active flash balance")

\* the while loop of _consumeFromTranches: <<tranches left, remaining>>
RECURSIVE ConsumeLoop(_, _, _)
ConsumeLoop(tr, remaining, i) ==
    IF remaining > 0 /\ i <= Len(tr)
    THEN LET take == IF tr[i].amount <= remaining THEN tr[i].amount ELSE remaining
             tr1  == [tr EXCEPT ![i].amount = @ - take]
         IN IF tr1[i].amount = 0
            THEN ConsumeLoop(SwapPop(tr1, i), remaining - take, i)
            ELSE ConsumeLoop(tr1, remaining - take, i + 1)
    ELSE <<tr, remaining>>

\* _consumeFromTranches(from, amount)
ConsumeFromTranches(s, from, amount) ==
    IF ~s.ok THEN s
    ELSE LET r == ConsumeLoop(s.flash[from], amount, 1)
         IN IF r[2] = 0 THEN [s EXCEPT !.flash[from] = r[1]]
            ELSE Revert(s, "Insufficient active flash balance")

\* _update whose transfer path does not call _syncExpiry
UpdateNoSync(s, from, to, value, t) ==
    IF ~s.ok THEN s
    ELSE IF s.bypassHook THEN ERC20Update(s, from, to, value)
    ELSE IF from = ZeroAddress THEN ERC20Update(s, from, to, value)
    ELSE IF to = ZeroAddress
    THEN ERC20Update(ConsumeFromTranches(SyncExpiry(s, from, t)[1], from, value),
                     from, to, value)
    ELSE ERC20Update(MoveTranches(s, from, to, value), from, to, value)

\* _update whose transfer path calls _syncExpiry(from) only
UpdateSyncFromOnly(s, from, to, value, t) ==
    IF ~s.ok THEN s
    ELSE IF s.bypassHook THEN ERC20Update(s, from, to, value)
    ELSE IF from = ZeroAddress THEN ERC20Update(s, from, to, value)
    ELSE IF to = ZeroAddress
    THEN ERC20Update(ConsumeFromTranches(SyncExpiry(s, from, t)[1], from, value),
                     from, to, value)
    ELSE ERC20Update(MoveTranches(SyncExpiry(s, from, t)[1], from, to, value),
                     from, to, value)

\* _update whose burn path does not call _syncExpiry(from)
UpdateBurnNoSync(s, from, to, value, t) ==
    IF ~s.ok THEN s
    ELSE IF s.bypassHook THEN ERC20Update(s, from, to, value)
    ELSE IF from = ZeroAddress THEN ERC20Update(s, from, to, value)
    ELSE IF to = ZeroAddress
    THEN ERC20Update(ConsumeFromTranches(s, from, value), from, to, value)
    ELSE ERC20Update(
            MoveTranches(SyncExpiry(SyncExpiry(s, from, t)[1], to, t)[1], from, to, value),
            from, to, value)

\* FlashUSDT._update(from, to, value)
Update(s, from, to, value, t) ==
    IF ~s.ok THEN s
    ELSE IF s.bypassHook THEN ERC20Update(s, from, to, value)
    ELSE IF from = ZeroAddress THEN ERC20Update(s, from, to, value)
    ELSE IF to = ZeroAddress
    THEN ERC20Update(ConsumeFromTranches(SyncExpiry(s, from, t)[1], from, value),
                     from, to, value)
    ELSE ERC20Update(
            MoveTranches(SyncExpiry(SyncExpiry(s, from, t)[1], to, t)[1], from, to, value),
            from, to, value)

\* ---------------------------------------------------------------- external calls
\* mintFlash without the onlyOwner modifier
MintFlashNoOwnerCheck(s, caller, to, amount, expiresAt, t) ==
    IF to = ZeroAddress THEN Revert(s, "Invalid recipient")
    ELSE IF ~(amount > 0) THEN Revert(s, "Amount must be > 0")
    ELSE IF ~(expiresAt > t) THEN Revert(s, "Expiry must be in future")
    ELSE LET s1 == SyncExpiry(s, to, t)[1]
             s2 == [s1 EXCEPT !.flash[to] = AppendTranche(@, amount, expiresAt)]
             s3 == Update(s2, ZeroAddress, to, amount, t)
         IN IF s3.ok
            THEN Emit(s3, [name |-> "FlashMinted", to |-> to, amount |-> amount,
                           expiresAt |-> expiresAt])
            ELSE s3

\* mintFlash without require(expiresAt > block.timestamp)
MintFlashNoExpiryCheck(s, caller, to, amount, expiresAt, t) ==
    IF caller # owner THEN Revert(s, "OwnableUnauthorizedAccount")
    ELSE IF to = ZeroAddress THEN Revert(s, "Invalid recipient")
    ELSE IF ~(amount > 0) THEN Revert(s, "Amount must be > 0")
    ELSE LET s1 == SyncExpiry(s, to, t)[1]
             s2 == [s1 EXCEPT !.flash[to] = AppendTranche(@, amount, expiresAt)]
             s3 == Update(s2, ZeroAddress, to, amount, t)
         IN IF s3.ok
            THEN Emit(s3, [name |-> "FlashMinted", to |-> to, amount |-> amount,
                           expiresAt |-> expiresAt])
            ELSE s3

\* mintFlash with require(expiresAt >= block.timestamp)
MintFlashExpiryInclusive(s, caller, to, amount, expiresAt, t) ==
    IF caller # owner THEN Revert(s, "OwnableUnauthorizedAccount")
    ELSE IF to = ZeroAddress THEN Revert(s, "Invalid recipient")
    ELSE IF ~(amount > 0) THEN Revert(s, "Amount must be > 0")
    ELSE IF ~(expiresAt >= t) THEN Revert(s, "Expiry must be in future")
    ELSE LET s1 == SyncExpiry(s, to, t)[1]
             s2 == [s1 EXCEPT !.flash[to] = AppendTranche(@, amount, expiresAt)]
             s3 == Update(s2, ZeroAddress, to, amount, t)
         IN IF s3.ok
            THEN Emit(s3, [name |-> "FlashMinted", to |-> to, amount |-> amount,
                           expiresAt |-> expiresAt])
            ELSE s3

\* mintFlash without the call of _syncExpiry(to)
MintFlashNoSync(s, caller, to, amount, expiresAt, t) ==
    IF caller # owner THEN Revert(s, "OwnableUnauthorizedAccount")
    ELSE IF to = ZeroAddress THEN Revert(s, "Invalid recipient")
    ELSE IF ~(amount > 0) THEN Revert(s, "Amount must be > 0")
    ELSE IF ~(expiresAt > t) THEN Revert(s, "Expiry must be in future")
    ELSE LET s2 == [s EXCEPT !.flash[to] = AppendTranche(@, amount, expiresAt)]
             s3 == Update(s2, ZeroAddress, to, amount, t)
         IN IF s3.ok
            THEN Emit(s3, [name |-> "FlashMinted", to |-> to, amount |-> amount,
                           expiresAt |-> expiresAt])
            ELSE s3

\* mintFlash without the call of _mint(to, amount)
MintFlashNoMint(s, caller, to, amount, expiresAt, t) ==
    IF caller # owner THEN Revert(s, "OwnableUnauthorizedAccount")
    ELSE IF to = ZeroAddress THEN Revert(s, "Invalid recipient")
    ELSE IF ~(amount > 0) THEN Revert(s, "Amount must be > 0")
    ELSE IF ~(expiresAt > t) THEN Revert(s, "Expiry must be in future")
    ELSE LET s1 == SyncExpiry(s, to, t)[1]
             s2 == [s1 EXCEPT !.flash[to] = AppendTranche(@, amount, expiresAt)]
         IN Emit(s2, [name |-> "FlashMinted", to |-> to, amount |-> amount,
                      expiresAt |-> expiresAt])

\* mintFlash(to, amount, expiresAt) sent by caller at timestamp t
MintFlashCall(s, caller, to, amount, expiresAt, t) ==
    IF caller # owner THEN Revert(s, "OwnableUnauthorizedAccount")   \* onlyOwner
    ELSE IF to = ZeroAddress THEN Revert(s, "Invalid recipient")
    ELSE IF ~(amount > 0) THEN Revert(s, "Amount must be > 0")
    ELSE IF ~(expiresAt > t) THEN Revert(s, "Expiry must be in future")
    ELSE LET s1 == SyncExpiry(s, to, t)[1]
             s2 == [s1 EXCEPT !.flash[to] = AppendTranche(@, amount, expiresAt)]
             s3 == Update(s2, ZeroAddress, to, amount, t)   \* _mint(to, amount)
         IN IF s3.ok
            THEN Emit(s3, [name |-> "FlashMinted", to |-> to, amount |-> amount,
                           expiresAt |-> expiresAt])
            ELSE s3

\* ERC20.transfer / transferFrom -> _transfer(from, to, value)
TransferCall(s, from, to, value, t) ==
    IF from = ZeroAddress THEN Revert(s, "ERC20InvalidSender")
    ELSE IF to = ZeroAddress THEN Revert(s, "ERC20InvalidReceiver")
    ELSE Update(s, from, to, value, t)

\* the loop of sweepExpired with the bound written i < accounts.length - 1
RECURSIVE SweepLoopSkipLast(_, _, _, _)
SweepLoopSkipLast(s, accounts, i, t) ==
    IF i < Len(accounts)
    THEN SweepLoopSkipLast(SyncExpiry(s, accounts[i], t)[1], accounts, i + 1, t)
    ELSE s

\* sweepExpired(accounts): the for loop
RECURSIVE SweepLoop(_, _, _, _)
SweepLoop(s, accounts, i, t) ==
    IF i <= Len(accounts)
    THEN SweepLoop(SyncExpiry(s, accounts[i], t)[1], accounts, i + 1, t)
    ELSE s

\* ---------------------------------------------------------------- the state machine
\* last: the most recent call. op: the function; account: the account argument
\* of burnExpired; ok: it did not revert; err: the revert reason; ret: the value
\* returned; at: block.timestamp of the call.
Call(op, account, s, ret) ==
    [op |-> op, account |-> account, ok |-> s.ok, err |-> s.err,
     ret |-> IF s.ok THEN ret ELSE 0, at |-> now]

NoCall == [op |-> "none", account |-> ZeroAddress, ok |-> TRUE, err |-> "",
           ret |-> 0, at |-> 0]

\* the total amount an account stores under one expiresAt
RECURSIVE HeldIn(_, _)
HeldIn(tr, e) ==
    IF tr = <<>> THEN 0
    ELSE (IF tr[1].expiresAt = e THEN tr[1].amount ELSE 0) + HeldIn(Tail(tr), e)

\* a failed require that returns instead of reverting: the writes made before
\* it are kept
CommitNoRollback(s) ==
    /\ flash' = s.flash
    /\ balances' = s.balances
    /\ totalSupply' = s.totalSupply
    /\ bypassHook' = s.bypassHook
    /\ events' = s.events

\* a call's storage writes and events are kept only if it did not revert
Commit(s) ==
    /\ flash' = IF s.ok THEN s.flash ELSE flash
    /\ balances' = IF s.ok THEN s.balances ELSE balances
    /\ totalSupply' = IF s.ok THEN s.totalSupply ELSE totalSupply
    /\ bypassHook' = IF s.ok THEN s.bypassHook ELSE bypassHook
    /\ events' = IF s.ok THEN s.events ELSE <<>>

\* no tx:send request has been handled yet
NoReply == [kind |-> "none", ok |-> FALSE, error |-> "", trace |-> <<>>, hash |-> 0]

\* the renderer when renderer.js has been loaded: let valuationTimer = null; no
\* timer, no refresh, an empty recipient field, a panel nothing has written to
Loaded == [field |-> "", valuationTimer |-> 0, pending |-> {}, created |-> 0,
           started |-> 0, inflight |-> {}, panel |-> [by |-> 0, shows |-> "nothing"]]

\* no tranche loop is being stepped through
Idle == [pc |-> "idle", fn |-> "none", from |-> ZeroAddress, to |-> ZeroAddress,
         amount |-> 0, i |-> 1, remaining |-> 0, burned |-> 0, steps |-> 0,
         fl0 |-> <<>>]

Init ==
    /\ flash = [a \in Addr |-> <<>>]
    /\ balances = [a \in Addr |-> 0]
    /\ totalSupply = 0
    /\ bypassHook = FALSE
    /\ owner = InitialOwner
    /\ now = 0
    /\ events = <<>>
    /\ last = NoCall
    /\ build = "src/main.js"
    /\ history = <<>>
    /\ waiting = <<>>
    /\ txCount = 0
    /\ reply = NoReply
    /\ loop = Idle
    /\ renderer = Loaded

MintFlash ==
    \E caller \in Holders, to \in Addr, amount \in Amounts, expiresAt \in Expiries :
        \E s \in {MintFlashCall(Storage, caller, to, amount, expiresAt, now)} :
           /\ s.ok => s.totalSupply <= MaxSupply
           /\ Commit(s)
           /\ last' = Call("mintFlash", ZeroAddress, s, 0)
           /\ UNCHANGED <<owner, now>>
           /\ UNCHANGED appVars
           /\ UNCHANGED renderer
           /\ UNCHANGED loop

Transfer ==
    \E from \in Holders, to \in Addr, amount \in Amounts :
        \E s \in {TransferCall(Storage, from, to, amount, now)} :
           /\ Commit(s)
           /\ last' = Call("transfer", ZeroAddress, s, 0)
           /\ UNCHANGED <<owner, now>>
           /\ UNCHANGED appVars
           /\ UNCHANGED renderer
           /\ UNCHANGED loop

BurnExpired ==
    \E account \in Addr :
        \E r \in {SyncExpiry(Storage, account, now)} :
           /\ Commit(r[1])
           /\ last' = Call("burnExpired", account, r[1], r[2])
           /\ UNCHANGED <<owner, now>>
           /\ UNCHANGED appVars
           /\ UNCHANGED renderer
           /\ UNCHANGED loop

SweepExpired ==
    \E accounts \in SweepLists :
        \E s \in {SweepLoop(Storage, accounts, 1, now)} :
           /\ Commit(s)
           /\ last' = Call("sweepExpired", ZeroAddress, s, 0)
           /\ UNCHANGED <<owner, now>>
           /\ UNCHANGED appVars
           /\ UNCHANGED renderer
           /\ UNCHANGED loop

\* the next block is mined: block.timestamp advances
Tick ==
    /\ now < MaxTime
    /\ now' = now + 1
    /\ UNCHANGED <<flash, balances, totalSupply, bypassHook, owner, events, last>>
    /\ UNCHANGED appVars
    /\ UNCHANGED renderer
    /\ UNCHANGED loop

Next == MintFlash \/ Transfer \/ BurnExpired \/ SweepExpired \/ Tick

Spec == Init /\ [][Next]_vars

\* ---------------------------------------------------------------- the burn path
\* FlashUSDT has no external function that burns a chosen value: the branch
\* to == address(0) of _update is entered only from the internal _burn, which a
\* contract deriving from FlashUSDT can call. BurnSpec adds that call to the
\* external ones.
Burn ==
    \E from \in Holders, value \in Amounts :
        \E s \in {Update(Storage, from, ZeroAddress, value, now)} :
           /\ Commit(s)
           /\ last' = Call("burn", from, s, value)
           /\ UNCHANGED <<owner, now>>
           /\ UNCHANGED appVars
           /\ UNCHANGED renderer
           /\ UNCHANGED loop

BurnNext == Next \/ Burn

BurnSpec == Init /\ [][BurnNext]_vars

\* ---------------------------------------------------------------- the tranche loops
\* The while loops of _syncExpiry, _moveTranches and _consumeFromTranches, one
\* iteration per step, started on tranche arrays the contract can hold: every
\* record has a positive amount, and _moveTranches and _consumeFromTranches
\* start after _syncExpiry has removed the expired records.
LoopRecords == {FlashBalance(amount, expiresAt) : amount \in {1, 2}, expiresAt \in {1, 2}}

LoopArrays == UNION {[1 .. n -> LoopRecords] : n \in 0 .. MaxLen}

ToArrays == {<<>>, <<FlashBalance(1, 1)>>, <<FlashBalance(1, 2)>>}

LoopAmounts == {0, 1, 3, 2 * MaxLen + 3}

LoopFunctions == {"_syncExpiry", "_moveTranches", "_consumeFromTranches"}

\* the condition of the while loop
LoopCond(fl, st) ==
    IF st.fn = "_syncExpiry"
    THEN st.i <= Len(fl[st.from])
    ELSE st.remaining > 0 /\ st.i <= Len(fl[st.from])

\* one iteration of the loop of _syncExpiry: <<mapping after, loop state after>>
SyncStep(fl, st, t) ==
    LET tr == fl[st.from]
    IN IF t >= tr[st.i].expiresAt
       THEN <<[fl EXCEPT ![st.from] = SwapPop(tr, st.i)],
              [st EXCEPT !.burned = @ + tr[st.i].amount]>>
       ELSE <<fl, [st EXCEPT !.i = @ + 1]>>

\* one iteration of the loop of _moveTranches without remaining -= take
MoveStepKeepRemaining(fl, st, t) ==
    LET i    == st.i
        take == IF fl[st.from][i].amount <= st.remaining
                THEN fl[st.from][i].amount ELSE st.remaining
        fl1  == [fl EXCEPT ![st.to] = AppendTranche(@, take, fl[st.from][i].expiresAt)]
        fl2  == [fl1 EXCEPT ![st.from][i].amount = @ - take]
    IN IF fl2[st.from][i].amount = 0
       THEN <<[fl2 EXCEPT ![st.from] = SwapPop(@, i)], st>>
       ELSE <<fl2, [st EXCEPT !.i = @ + 1]>>

\* one iteration of the loop of _moveTranches
MoveStep(fl, st, t) ==
    LET i    == st.i
        take == IF fl[st.from][i].amount <= st.remaining
                THEN fl[st.from][i].amount ELSE st.remaining
        fl1  == [fl EXCEPT ![st.to] = AppendTranche(@, take, fl[st.from][i].expiresAt)]
        fl2  == [fl1 EXCEPT ![st.from][i].amount = @ - take]
    IN IF fl2[st.from][i].amount = 0
       THEN <<[fl2 EXCEPT ![st.from] = SwapPop(@, i)],
              [st EXCEPT !.remaining = @ - take]>>
       ELSE <<fl2, [st EXCEPT !.remaining = @ - take, !.i = @ + 1]>>

\* one iteration of the loop of _consumeFromTranches
ConsumeStep(fl, st, t) ==
    LET i    == st.i
        take == IF fl[st.from][i].amount <= st.remaining
                THEN fl[st.from][i].amount ELSE st.remaining
        fl2  == [fl EXCEPT ![st.from][i].amount = @ - take]
    IN IF fl2[st.from][i].amount = 0
       THEN <<[fl2 EXCEPT ![st.from] = SwapPop(@, i)],
              [st EXCEPT !.remaining = @ - take]>>
       ELSE <<fl2, [st EXCEPT !.remaining = @ - take, !.i = @ + 1]>>

LoopInit ==
    /\ flash \in {[a \in Addr |-> IF a = 1 THEN x ELSE IF a = 2 THEN y ELSE <<>>] :
                     x \in LoopArrays, y \in ToArrays}
    /\ balances = [a \in Addr |-> SumAmounts(flash[a])]
    /\ totalSupply = SumAmounts(flash[1]) + SumAmounts(flash[2])
    /\ bypassHook = FALSE
    /\ owner = InitialOwner
    /\ now \in 0 .. MaxTime
    /\ events = <<>>
    /\ last = NoCall
    /\ build = "src/main.js"
    /\ history = <<>>
    /\ waiting = <<>>
    /\ txCount = 0
    /\ reply = NoReply
    /\ loop = Idle
    /\ renderer = Loaded

\* a function enters its loop: uint256 i = 0; uint256 remaining = amount;
LoopStart ==
    /\ loop.pc = "idle"
    /\ \E fn \in LoopFunctions, from \in Holders, to \in Holders, amount \in LoopAmounts :
          /\ fn = "_syncExpiry" => (to = from /\ amount = 0)
          /\ fn = "_consumeFromTranches" => to = from
          /\ fn # "_syncExpiry"
                => (ExpiredSum(flash[from], 1, now) = 0 /\ ExpiredSum(flash[to], 1, now) = 0)
          /\ loop' = [pc |-> "loop", fn |-> fn, from |-> from, to |-> to,
                      amount |-> amount, i |-> 1, remaining |-> amount, burned |-> 0,
                      steps |-> 0, fl0 |-> flash]
    /\ UNCHANGED ledgerVars
    /\ UNCHANGED appVars
    /\ UNCHANGED renderer

\* the loop condition holds: the body runs once
LoopStep ==
    /\ loop.pc = "loop"
    /\ LoopCond(flash, loop)
    /\ \E r \in {IF loop.fn = "_syncExpiry" THEN SyncStep(flash, loop, now)
                 ELSE IF loop.fn = "_moveTranches" THEN MoveStep(flash, loop, now)
                 ELSE ConsumeStep(flash, loop, now)} :
          /\ flash' = r[1]
          /\ loop' = [r[2] EXCEPT !.steps = @ + 1]
    /\ UNCHANGED <<balances, totalSupply, bypassHook, owner, now, events, last>>
    /\ UNCHANGED appVars
    /\ UNCHANGED renderer

\* the loop condition fails: the loop is left
LoopExit ==
    /\ loop.pc = "loop"
    /\ ~LoopCond(flash, loop)
    /\ loop' = [loop EXCEPT !.pc = "exit"]
    /\ UNCHANGED ledgerVars
    /\ UNCHANGED appVars
    /\ UNCHANGED renderer

LoopNext == LoopStart \/ LoopStep \/ LoopExit

\* a transaction that has entered a loop keeps executing
LoopSpec == LoopInit /\ [][LoopNext]_vars /\ WF_vars(LoopStep) /\ WF_vars(LoopExit)

\* ---------------------------------------------------------------- desktop app
MinExpirationMs == 60000    \* expirationMs < 60000 is rejected
HistoryLimit    == 200      \* [historyEntry, ...current].slice(0, 200)

\* the two revisions of the main process in the repository
Builds == {"src/main.js", "unnamed/part_001"}

\* ethers.isAddress accepts ValidAddress and rejects the other destination
ValidAddress == "0x00000000000000000000000000000000000000a1"

ToInputs == {ValidAddress, "a1"}

isAddress(x) == x = ValidAddress

\* payload.privateKey: missing, without the 0x prefix, well formed
KeyInputs == {"", "abc", "0xkey"}

\* !payload.privateKey || !payload.privateKey.startsWith("0x")
LacksHexPrefix(key) == key = "" \/ key \notin {"0xkey"}

\* payload.amount as the renderer sends it: a string; its Number() and whether
\* ethers.parseUnits accepts it
AmountInputs == {"0", "5", "abc"}

\* Number(payload.amount) <= 0  (false for NaN)
NumberLeqZero(amount) == amount = "0"

ParsesAsUnits(amount) == amount \in {"0", "5"}

\* payload.expirationMs: a JavaScript number, finite or not (NaN, Infinity)
Ms(n) == [finite |-> TRUE, ms |-> n]

NotFinite == [finite |-> FALSE, ms |-> 0]

ExpirationInputs == {NotFinite, Ms(59999), Ms(60000)}

Payloads ==
    [to : ToInputs, privateKey : KeyInputs, amount : AmountInputs,
     expirationMs : ExpirationInputs]

\* the number of inputs of mintFlash in the configured ABI; -1: no mintFlash
AbiShapes == {-1, 2, 3, 4}

\* what the environment answers during one request: the configuration files
\* (loadConfig throws / contractAddress invalid / no code at the address), the
\* ABI, owner() of the contract relative to the sender ("none": the ABI has no
\* owner), the outcome of the static call and of sending the transaction
Envs ==
    [config : {"ok"}, abi : AbiShapes, owner : {"none", "sender", "other"},
     staticOk : BOOLEAN, sendOk : BOOLEAN]
    \cup [config : {"throws", "invalid", "noCode"}, abi : {3}, owner : {"sender"},
          staticOk : {TRUE}, sendOk : {TRUE}]

\* values of Date.now() in milliseconds
ClockReadings == {0, 999, 1700}

\* Date.now() while a request is handled
RequestClock == {1700}

\* buildMintCallArgs with the check of expirationMs left out
BuildMintCallArgsNoMinimum(inputs, to, parsedAmount, expirationMs, nowMs) ==
    IF inputs = -1
    THEN [ok |-> FALSE, error |-> "mintFlash function not found in ABI.", args |-> <<>>]
    ELSE IF inputs = 3
    THEN [ok |-> TRUE, error |-> "",
          args |-> <<to, parsedAmount, (nowMs + expirationMs.ms) \div 1000>>]
    ELSE IF inputs = 2
    THEN [ok |-> TRUE, error |-> "", args |-> <<to, parsedAmount>>]
    ELSE [ok |-> FALSE, args |-> <<>>,
          error |-> "Unsupported mintFlash signature. Expected 2 or 3 inputs."]

\* buildMintCallArgs(contract, to, parsedAmount, expirationMs) with Date.now()
\* = nowMs: the arguments of the call, or the error thrown
BuildMintCallArgs(inputs, to, parsedAmount, expirationMs, nowMs) ==
    IF inputs = -1
    THEN [ok |-> FALSE, error |-> "mintFlash function not found in ABI.", args |-> <<>>]
    ELSE IF inputs = 3
    THEN IF ~expirationMs.finite \/ expirationMs.ms < MinExpirationMs
         THEN [ok |-> FALSE, error |-> "Expiration must be at least 1 minute.",
               args |-> <<>>]
         ELSE [ok |-> TRUE, error |-> "",
               args |-> <<to, parsedAmount, (nowMs + expirationMs.ms) \div 1000>>]
    ELSE IF inputs = 2
    THEN [ok |-> TRUE, error |-> "", args |-> <<to, parsedAmount>>]
    ELSE [ok |-> FALSE, args |-> <<>>,
          error |-> "Unsupported mintFlash signature. Expected 2 or 3 inputs."]

\* catch (err) { return { ok: false, error: normalizeError(err) } } after the
\* steps of trace completed
Fail(trace, msg) ==
    [kind |-> "returned", ok |-> FALSE, error |-> msg, trace |-> trace, hash |-> 0]

\* sendMintFlash that broadcasts before the owner check and the static call
SendMintFlashBroadcastFirst(b, p, env, nowMs, n, trace) ==
    IF ~ParsesAsUnits(p.amount) THEN Fail(trace, "invalid decimal string")
    ELSE LET a  == BuildMintCallArgs(env.abi, p.to, p.amount, p.expirationMs, nowMs)
             t1 == Append(trace, "buildMintCallArgs")
         IN IF ~a.ok THEN Fail(trace, a.error)
            ELSE IF ~env.sendOk THEN Fail(t1, "could not send transaction")
            ELSE [kind |-> "returned", ok |-> TRUE, error |-> "", hash |-> n + 1,
                  trace |-> t1 \o <<"broadcast", "assertOwnerIfAvailable",
                                    "staticCall", "writeHistory">>]

\* sendMintFlash(privateKey, to, amount, expirationMs, cfg) of revision b as
\* the n+1st transaction, up to its return
SendMintFlash(b, p, env, nowMs, n, trace) ==
    IF ~ParsesAsUnits(p.amount) THEN Fail(trace, "invalid decimal string")
    ELSE LET a  == BuildMintCallArgs(env.abi, p.to, p.amount, p.expirationMs, nowMs)
             t1 == Append(trace, "buildMintCallArgs")
             t2 == IF b = "unnamed/part_001"
                   THEN Append(t1, "assertOwnerIfAvailable") ELSE t1
             t3 == IF b = "unnamed/part_001" THEN Append(t2, "staticCall") ELSE t2
         IN IF ~a.ok THEN Fail(trace, a.error)
            ELSE IF b = "unnamed/part_001" /\ env.owner = "other"
            THEN Fail(t1, "Only owner can mint.")
            ELSE IF b = "unnamed/part_001" /\ ~env.staticOk
            THEN Fail(t2, "execution reverted")
            ELSE IF ~env.sendOk THEN Fail(t3, "could not send transaction")
            ELSE [kind |-> "returned", ok |-> TRUE, error |-> "", hash |-> n + 1,
                  trace |-> t3 \o <<"broadcast", "writeHistory">>]

\* the tx:send handler without its own check of payload.expirationMs
TxSendHandlerNoExpirationCheck(b, p, env, nowMs, n) ==
    LET t1 == <<"loadConfig", "validateRuntimeConfig">>
        t2 == IF b = "unnamed/part_001"
              THEN Append(t1, "validateContractTargetOnChain") ELSE t1
    IN IF env.config = "throws"
       THEN [kind |-> "thrown", ok |-> FALSE, trace |-> <<>>, hash |-> 0,
             error |-> "CONTRACT_ABI in .env must be valid JSON."]
       ELSE IF env.config = "invalid"
       THEN Fail(<<"loadConfig">>, "Invalid CONTRACT_ADDRESS")
       ELSE IF b = "unnamed/part_001" /\ env.config = "noCode"
       THEN Fail(t1, "Configured CONTRACT_ADDRESS has no contract code")
       ELSE IF ~isAddress(p.to) THEN Fail(t2, "Invalid destination wallet address.")
       ELSE IF LacksHexPrefix(p.privateKey)
       THEN Fail(t2, "Private key must include 0x prefix.")
       ELSE IF NumberLeqZero(p.amount) THEN Fail(t2, "Amount must be greater than zero.")
       ELSE SendMintFlash(b, p, env, nowMs, n, Append(t2, "validatePayload"))

\* ipcMain.handle("tx:send", ...) of revision b: what the request comes back
\* with, the steps that completed, and the transaction broadcast (hash 0: none)
TxSendHandler(b, p, env, nowMs, n) ==
    LET t1 == <<"loadConfig", "validateRuntimeConfig">>
        t2 == IF b = "unnamed/part_001"
              THEN Append(t1, "validateContractTargetOnChain") ELSE t1
    IN IF env.config = "throws"                     \* loadConfig() is outside the try
       THEN [kind |-> "thrown", ok |-> FALSE, trace |-> <<>>, hash |-> 0,
             error |-> "CONTRACT_ABI in .env must be valid JSON."]
       ELSE IF env.config = "invalid"
       THEN Fail(<<"loadConfig">>, "Invalid CONTRACT_ADDRESS")
       ELSE IF b = "unnamed/part_001" /\ env.config = "noCode"
       THEN Fail(t1, "Configured CONTRACT_ADDRESS has no contract code")
       ELSE IF ~isAddress(p.to) THEN Fail(t2, "Invalid destination wallet address.")
       ELSE IF LacksHexPrefix(p.privateKey)
       THEN Fail(t2, "Private key must include 0x prefix.")
       ELSE IF NumberLeqZero(p.amount) THEN Fail(t2, "Amount must be greater than zero.")
       ELSE IF ~p.expirationMs.finite \/ p.expirationMs.ms < MinExpirationMs
       THEN Fail(t2, "Expiration must be at least 1 minute.")
       ELSE SendMintFlash(b, p, env, nowMs, n, Append(t2, "validatePayload"))

\* a history entry as sendMintFlash creates it
PendingEntry(id) == [id |-> id, status |-> "pending"]

\* [historyEntry, ...current].slice(0, 200)
AddEntry(h, id) ==
    LET all == <<PendingEntry(id)>> \o h
    IN SubSeq(all, 1, IF Len(all) <= HistoryLimit THEN Len(all) ELSE HistoryLimit)

\* the callback of tx.wait() that marks every receipt confirmed
OnReceiptAlwaysConfirmed(h, id, status) ==
    [i \in DOMAIN h |->
        IF h[i].id # id THEN h[i] ELSE [h[i] EXCEPT !.status = "confirmed"]]

\* a callback of tx.wait() that puts the entry back when the history no longer
\* holds it
OnReceiptUpsert(h, id, status) ==
    IF \E i \in DOMAIN h : h[i].id = id
    THEN [i \in DOMAIN h |->
             IF h[i].id # id THEN h[i]
             ELSE [h[i] EXCEPT !.status = IF status = 1 THEN "confirmed" ELSE "failed"]]
    ELSE <<[id |-> id, status |-> IF status = 1 THEN "confirmed" ELSE "failed"]>> \o h

\* tx.wait().then(receipt => ...): the entry of the transaction gets
\* receipt.status === 1 ? "confirmed" : "failed"
OnReceipt(h, id, status) ==
    [i \in DOMAIN h |->
        IF h[i].id # id THEN h[i]
        ELSE [h[i] EXCEPT !.status = IF status = 1 THEN "confirmed" ELSE "failed"]]

\* tx.wait().catch(err => ...): the entry of the transaction gets "failed"
OnWaitError(h, id) ==
    [i \in DOMAIN h |->
        IF h[i].id # id THEN h[i] ELSE [h[i] EXCEPT !.status = "failed"]]

AppInit ==
    /\ flash = [a \in Addr |-> <<>>]
    /\ balances = [a \in Addr |-> 0]
    /\ totalSupply = 0
    /\ bypassHook = FALSE
    /\ owner = InitialOwner
    /\ now = 0
    /\ events = <<>>
    /\ last = NoCall
    /\ build \in Builds
    /\ history = <<>>
    /\ waiting = <<>>
    /\ txCount = 0
    /\ reply = NoReply
    /\ loop = Idle
    /\ renderer = Loaded

\* one tx:send request, from its arrival to the handler's return, with the
\* payload and the environment's answers drawn from the given sets; cap: the
\* number of broadcasts explored
Send(payloads, envs, cap) ==
    \E p \in payloads, env \in envs, nowMs \in RequestClock :
        \E r \in {TxSendHandler(build, p, env, nowMs, txCount)} :
           /\ r.hash # 0 => txCount < cap
           /\ reply' = r
           /\ history' = IF r.hash # 0 THEN AddEntry(history, r.hash) ELSE history
           /\ waiting' = IF r.hash # 0 THEN Append(waiting, "unsettled") ELSE waiting
           /\ txCount' = IF r.hash # 0 THEN txCount + 1 ELSE txCount
           /\ UNCHANGED build
           /\ UNCHANGED ledgerVars
           /\ UNCHANGED loop
           /\ UNCHANGED renderer

TxSend == Send(Payloads, Envs, MaxTx)

\* tx.wait() of transaction id resolves with a receipt of the given status
ReceiptArrives ==
    \E id \in DOMAIN waiting, status \in {0, 1} :
        /\ waiting[id] = "unsettled"
        /\ history' = OnReceipt(history, id, status)
        /\ waiting' = [waiting EXCEPT ![id] = IF status = 1 THEN "receipt 1" ELSE "receipt 0"]
        /\ UNCHANGED <<build, txCount, reply>>
        /\ UNCHANGED ledgerVars
        /\ UNCHANGED loop
        /\ UNCHANGED renderer

\* tx.wait() of transaction id rejects
WaitRejects ==
    \E id \in DOMAIN waiting :
        /\ waiting[id] = "unsettled"
        /\ history' = OnWaitError(history, id)
        /\ waiting' = [waiting EXCEPT ![id] = "rejected"]
        /\ UNCHANGED <<build, txCount, reply>>
        /\ UNCHANGED ledgerVars
        /\ UNCHANGED loop
        /\ UNCHANGED renderer

AppNext == TxSend \/ ReceiptArrives \/ WaitRejects

AppSpec == AppInit /\ [][AppNext]_vars

\* ---------------------------------------------------------------- a full history
\* The app after HistoryLimit broadcasts: the history file holds HistoryLimit
\* entries, and the receipts of the oldest StillPending transactions have not
\* arrived yet. The next broadcasts push these entries out of the file while
\* their tx.wait() promises are unsettled.
StillPending == {1, 2}

FullHistory ==
    [i \in 1 .. HistoryLimit |->
        [id |-> HistoryLimit + 1 - i,
         status |-> IF HistoryLimit + 1 - i \in StillPending THEN "pending"
                    ELSE "confirmed"]]

\* requests explored from the full history: a valid one and one with a bad
\* destination, the send succeeding or failing
HistoryPayloads ==
    {p \in Payloads : p.privateKey = "0xkey" /\ p.amount = "5" /\ p.expirationMs = Ms(60000)}

HistoryEnvs ==
    {env \in Envs : env.config = "ok" /\ env.abi = 3 /\ env.owner = "sender"
                       /\ env.staticOk}

HistoryInit ==
    /\ flash = [a \in Addr |-> <<>>]
    /\ balances = [a \in Addr |-> 0]
    /\ totalSupply = 0
    /\ bypassHook = FALSE
    /\ owner = InitialOwner
    /\ now = 0
    /\ events = <<>>
    /\ last = NoCall
    /\ build \in Builds
    /\ history = FullHistory
    /\ waiting = [id \in 1 .. HistoryLimit |->
                     IF id \in StillPending THEN "unsettled" ELSE "receipt 1"]
    /\ txCount = HistoryLimit
    /\ reply = NoReply
    /\ loop = Idle
    /\ renderer = Loaded

HistorySend == Send(HistoryPayloads, HistoryEnvs, HistoryLimit + MaxTx)

HistoryNext == HistorySend \/ ReceiptArrives \/ WaitRejects

HistorySpec == HistoryInit /\ [][HistoryNext]_vars

\* ---------------------------------------------------------------- renderer
\* The valuation panel of renderer/renderer.js. A trigger (blur or change of the
\* recipient field, the 60 s interval, the end of init, a submitted send or
\* burn) calls scheduleValuationRefresh; the timer's callback starts
\* refreshValuation, which reads the recipient field and, unless it is empty,
\* awaits the balance and the price; when the await settles it writes the panel.
\* Each of these is one turn of the event loop; the awaits of different
\* refreshes settle in any order.
RecipientInputs == {"", " ", "w1", "w2"}

\* String.prototype.trim on the inputs explored
Trim(x) == IF x = " " THEN "" ELSE x

\* how the await of a refresh ends: getBalance answered ok and the price was
\* fetched; getBalance answered {ok: false}; Promise.all rejected
Settlements == {"balance", "unavailable", "rejected"}

\* scheduleValuationRefresh(delayMs)
ScheduleValuationRefresh(rd) ==
    LET left == IF rd.valuationTimer # 0 THEN rd.pending \ {rd.valuationTimer}
                ELSE rd.pending
        id   == rd.created + 1
    IN [rd EXCEPT !.pending = left \cup {id}, !.valuationTimer = id, !.created = id]

\* refreshValuation() up to its await (or to its return when the field is empty)
RefreshValuationStart(rd) ==
    LET wallet == Trim(rd.field)
        seq    == rd.started + 1
    IN IF wallet = ""
       THEN [rd EXCEPT !.started = seq, !.panel = [by |-> seq, shows |-> "-"]]
       ELSE [rd EXCEPT !.started = seq,
                       !.inflight = @ \cup {[seq |-> seq, wallet |-> wallet]}]

\* refreshValuation() after its await, and the catch of the timer's callback
RefreshValuationEnd(rd, r, how) ==
    [rd EXCEPT !.inflight = @ \ {r},
               !.panel = [by |-> r.seq,
                          shows |-> IF how = "balance" THEN r.wallet ELSE "-"]]

\* the user edits the recipient field
TypeRecipient ==
    /\ \E w \in RecipientInputs :
          /\ w # renderer.field
          /\ renderer' = [renderer EXCEPT !.field = w]
    /\ UNCHANGED ledgerVars
    /\ UNCHANGED appVars
    /\ UNCHANGED loop

\* an event that calls scheduleValuationRefresh
Trigger ==
    /\ renderer.created < MaxTimers
    /\ renderer' = ScheduleValuationRefresh(renderer)
    /\ UNCHANGED ledgerVars
    /\ UNCHANGED appVars
    /\ UNCHANGED loop

\* a pending timer expires: its callback starts refreshValuation
TimerFires ==
    /\ \E id \in renderer.pending :
          renderer' = RefreshValuationStart([renderer EXCEPT !.pending = @ \ {id}])
    /\ UNCHANGED ledgerVars
    /\ UNCHANGED appVars
    /\ UNCHANGED loop

\* the await of a refresh in flight settles
RefreshSettles ==
    /\ \E r \in renderer.inflight, how \in Settlements :
          renderer' = RefreshValuationEnd(renderer, r, how)
    /\ UNCHANGED ledgerVars
    /\ UNCHANGED appVars
    /\ UNCHANGED loop

RendererNext == TypeRecipient \/ Trigger \/ TimerFires \/ RefreshSettles

RendererSpec == Init /\ [][RendererNext]_vars

\* ---------------------------------------------------------------- properties
RECURSIVE SumOver(_, _)
SumOver(S, f) ==
    IF S = {} THEN 0
    ELSE LET a == CHOOSE x \in S : TRUE IN f[a] + SumOver(S \ {a}, f)

\* the event that ends the log of the most recent call
LastEvent(ev) == ev[Len(ev)]

IsEvent(ev, name) == ev # <<>> /\ LastEvent(ev).name = name

\* the number of records of a tranche array that carry expiresAt e
CountOf(tr, e) == Cardinality({i \in DOMAIN tr : tr[i].expiresAt = e})

\* the sum of all accounts' active balances for a mapping at a timestamp
ActiveAt(fl, t) == SumOver(Addr, [a \in Addr |-> ActiveSum(fl[a], 1, t)])

LedgerUnchanged ==
    /\ flash' = flash
    /\ balances' = balances
    /\ totalSupply' = totalSupply

\* C1 Conservation: in every reachable state the tranche amounts of all
\* accounts sum to totalSupply, and totalSupply is the sum of all balanceOf.
C1_Conservation ==
    /\ SumOver(Addr, [a \in Addr |-> SumAmounts(flash[a])]) = totalSupply
    /\ SumOver(Addr, balances) = totalSupply

\* an expiry burn has happened and supply remains
C1_Witness ==
    /\ last.op = "burnExpired"
    /\ last.ret > 0
    /\ totalSupply > 0

\* C2 Per-account bookkeeping: after every call, for every account the amounts
\* of its stored tranches (active and expired) sum to its balanceOf.
C2_PerAccountBookkeeping ==
    \A a \in Addr : SumAmounts(flash[a]) = balanceOf(a)

\* a transfer of a positive amount from an account to itself has completed
C2_Witness ==
    /\ last.op = "transfer"
    /\ last.ok
    /\ IsEvent(events, "Transfer")
    /\ LastEvent(events).from = LastEvent(events).to
    /\ LastEvent(events).value > 0

\* C3 Atomic transfer failure: a transfer of more than the sender's active
\* balance fails, and a failed transfer leaves every tranche collection, every
\* balance and totalSupply as they were and records no event.
C3_AtomicTransferFailure ==
    /\ [](\A from \in Holders, to \in Holders, amount \in Amounts :
            amount > activeBalanceOf(from)
                => ~TransferCall(Storage, from, to, amount, now).ok)
    /\ [][(now' = now /\ last'.op = "transfer" /\ ~last'.ok)
            => (LedgerUnchanged /\ events' = <<>>)]_vars

\* a transfer has failed for lack of active balance while both holders store
\* expired tranches, which are still there
C3_Witness ==
    /\ last.op = "transfer"
    /\ last.err = "Insufficient active flash balance"
    /\ last.at = now
    /\ \A a \in Holders : expiredBalanceOf(a) > 0

\* C4 Transfer admission: between non-zero accounts a transfer succeeds exactly
\* when amount <= activeBalanceOf(from) at the call's timestamp, and what the
\* receiver then stores is not expired.
C4_TransferAdmission ==
    \A from \in Holders, to \in Holders, amount \in Amounts :
        LET s == TransferCall(Storage, from, to, amount, now)
        IN /\ s.ok <=> amount <= activeBalanceOf(from)
           /\ s.ok => ExpiredSum(s.flash[to], 1, now) = 0

\* a transfer of a positive amount has succeeded in the call that burned expired
\* tranches of its sender
C4_Witness ==
    /\ last.op = "transfer"
    /\ last.ok
    /\ IsEvent(events, "Transfer")
    /\ LastEvent(events).value > 0
    /\ \E i \in DOMAIN events :
          /\ events[i].name = "ExpiredBalanceBurned"
          /\ events[i].account = LastEvent(events).from

\* C5 No resurrection: the clock never goes back; what an account stores under
\* an expiresAt that has passed is never increased nor moved to another account
\* (it stays or is removed); and the sum of active balances grows only by the
\* amount of a successful mintFlash.
C5_NoResurrection ==
    [][/\ now' >= now
       /\ (flash' # flash \/ now' # now) =>
            /\ \A a \in Addr, e \in Expiries :
                  e <= now => HeldIn(flash'[a], e) \in {0, HeldIn(flash[a], e)}
            /\ ActiveAt(flash', now')
                  <= ActiveAt(flash, now)
                     + (IF now' = now /\ last'.op = "mintFlash" /\ last'.ok
                        THEN LastEvent(events').amount ELSE 0)]_vars

\* a mint has succeeded at the current time while an account stores an expired
\* tranche
C5_Witness ==
    /\ last.op = "mintFlash"
    /\ last.ok
    /\ last.at = now
    /\ \E a \in Holders : expiredBalanceOf(a) > 0

\* C6 burnExpired is idempotent: a burnExpired that directly follows a
\* burnExpired of the same account, with no tranche of the account expiring
\* between the two, returns 0, changes nothing and emits no event.
C6_BurnExpiredIdempotent ==
    [][(/\ last.op = "burnExpired"
        /\ last'.op = "burnExpired"
        /\ last'.account = last.account
        /\ now' = now
        /\ \A i \in DOMAIN flash[last.account] :
              ~(last.at < flash[last.account][i].expiresAt
                /\ flash[last.account][i].expiresAt <= now))
       => (last'.ret = 0 /\ LedgerUnchanged /\ events' = <<>>)]_vars

\* a burnExpired has burned expired value of an account that keeps active value
C6_Witness ==
    /\ last.op = "burnExpired"
    /\ last.ret > 0
    /\ activeBalanceOf(last.account) > 0

\* C7 Expiry exclusivity: for every account and every time t,
\* activeBalanceOf + expiredBalanceOf = balanceOf.
C7_ExpiryExclusivity ==
    \A a \in Addr :
        /\ activeBalanceOf(a) + expiredBalanceOf(a) = balanceOf(a)
        /\ \A t \in 0..(MaxTime + 1) :
              ActiveSum(flash[a], 1, t) + ExpiredSum(flash[a], 1, t) = balanceOf(a)

\* an account stores active and expired value at once
C7_Witness ==
    \E a \in Holders : activeBalanceOf(a) > 0 /\ expiredBalanceOf(a) > 0

\* a successful mintFlash directly follows a successful mintFlash to the same
\* account with the same expiresAt
TwoMints ==
    /\ last.op = "mintFlash"
    /\ last.ok
    /\ last'.op = "mintFlash"
    /\ last'.ok
    /\ now' = now
    /\ LastEvent(events').to = LastEvent(events).to
    /\ LastEvent(events').expiresAt = LastEvent(events).expiresAt

\* C8 as stated, merge idempotence: after two consecutive mints to one account
\* with the same expiresAt, the account holds exactly one tranche with that
\* expiresAt, and it grew by the second amount.
C8_MergeIdempotence ==
    [][TwoMints =>
        LET to == LastEvent(events').to
            e  == LastEvent(events').expiresAt
        IN /\ CountOf(flash'[to], e) = 1
           /\ HeldIn(flash'[to], e) = HeldIn(flash[to], e) + LastEvent(events').amount]_vars

\* C8 amended: the same, when no tranche of the account expires between the two
\* mints and the account held that expiresAt in one record after the first.
C8_MergeIdempotenceSameBlock ==
    [][(/\ TwoMints
        /\ expiredBalanceOf(LastEvent(events).to) = 0
        /\ CountOf(flash[LastEvent(events).to], LastEvent(events).expiresAt) = 1)
       => LET to == LastEvent(events').to
              e  == LastEvent(events').expiresAt
          IN /\ CountOf(flash'[to], e) = 1
             /\ Len(flash'[to]) = Len(flash[to])
             /\ HeldIn(flash'[to], e)
                   = HeldIn(flash[to], e) + LastEvent(events').amount]_vars

\* a mint has been merged into the only record of its account
C8_Witness ==
    /\ last.op = "mintFlash"
    /\ last.ok
    /\ IsEvent(events, "FlashMinted")
    /\ flash[LastEvent(events).to]
          = <<[amount |-> 2 * LastEvent(events).amount,
               expiresAt |-> LastEvent(events).expiresAt]>>

C10_MintAuthorization ==
    /\ [](\A caller \in Holders \ {owner}, to \in Addr,
             amount \in Amounts, e \in Expiries :
            ~MintFlashCall(Storage, caller, to, amount, e, now).ok)
    /\ [][/\ (now' = now /\ last'.op = "mintFlash" /\ ~last'.ok)
             => (LedgerUnchanged /\ events' = <<>>)
          /\ totalSupply' > totalSupply
             => (now' = now /\ last'.op = "mintFlash" /\ last'.ok)]_vars

\* a mintFlash from a caller who is not the owner has been rejected
C10_Witness ==
    /\ last.op = "mintFlash"
    /\ last.err = "OwnableUnauthorizedAccount"
    /\ last.at = now
    /\ totalSupply > 0

\* the three require messages of mintFlash
MintValidationErrors ==
    {"Invalid recipient", "Amount must be > 0", "Expiry must be in future"}

\* C11 Mint validation: mintFlash by the owner is rejected exactly when the
\* recipient is the zero account, the amount is 0 or expiresAt <= now
\* (expiresAt = now included), the rejection happens before anything is
\* written, and a rejected mintFlash leaves the ledger as it was, the
\* recipient's expired tranches included.
C11_MintValidation ==
    /\ [](\A to \in Addr, amount \in Amounts, e \in Expiries :
            LET r == MintFlashCall(Storage, owner, to, amount, e, now)
            IN /\ r.ok <=> (to # ZeroAddress /\ amount > 0 /\ e > now)
               /\ ~r.ok => /\ r.err \in MintValidationErrors
                           /\ r.flash = flash
                           /\ r.balances = balances
                           /\ r.totalSupply = totalSupply
                           /\ r.events = <<>>)
    /\ [][(now' = now /\ last'.op = "mintFlash" /\ last'.err \in MintValidationErrors)
            => (LedgerUnchanged /\ events' = <<>>)]_vars

\* the owner's mintFlash has been rejected for its expiry while every holder
\* still carries expired tranches that a synchronisation would have burned
C11_Witness ==
    /\ last.op = "mintFlash"
    /\ last.err = "Expiry must be in future"
    /\ last.at = now
    /\ \A a \in Holders : expiredBalanceOf(a) > 0

\* the positions of a call's event log that hold an event of one name
EventsNamed(ev, name) == {i \in DOMAIN ev : ev[i].name = name}

\* C12 Mint effect: a successful mintFlash(to, amount, expiresAt) at time now
\* first burns the expired tranches of `to`: afterwards balanceOf(to) is the
\* former activeBalanceOf(to) plus amount, totalSupply is the former
\* totalSupply minus the former expiredBalanceOf(to) plus amount, `to` stores
\* no tranche with expiresAt <= now, the amount stored under expiresAt grew by
\* exactly amount, every other account is unchanged, and FlashMinted is
\* recorded once, after any ExpiredBalanceBurned of the same call.
C12_MintEffect ==
    [][(now' = now /\ last'.op = "mintFlash" /\ last'.ok) =>
         /\ IsEvent(events', "FlashMinted")
         /\ LET m == LastEvent(events')
            IN /\ balances'[m.to] = activeBalanceOf(m.to) + m.amount
               /\ totalSupply' = totalSupply - expiredBalanceOf(m.to) + m.amount
               /\ \A i \in DOMAIN flash'[m.to] : flash'[m.to][i].expiresAt > now
               /\ HeldIn(flash'[m.to], m.expiresAt)
                     = HeldIn(flash[m.to], m.expiresAt) + m.amount
               /\ \A e \in Expiries \ {m.expiresAt} :
                     e > now => HeldIn(flash'[m.to], e) = HeldIn(flash[m.to], e)
               /\ \A a \in Addr \ {m.to} :
                     flash'[a] = flash[a] /\ balances'[a] = balances[a]
               /\ EventsNamed(events', "FlashMinted") = {Len(events')}
               /\ (EventsNamed(events', "ExpiredBalanceBurned") # {})
                     <=> (expiredBalanceOf(m.to) > 0)
               /\ \A i \in EventsNamed(events', "ExpiredBalanceBurned") :
                     /\ i < Len(events')
                     /\ events'[i].account = m.to
                     /\ events'[i].amount = expiredBalanceOf(m.to)]_vars

\* a successful mintFlash has burned expired tranches of its recipient, who
\* also kept an unexpired tranche
C12_Witness ==
    /\ last.op = "mintFlash"
    /\ last.ok
    /\ EventsNamed(events, "ExpiredBalanceBurned") # {}
    /\ IsEvent(events, "FlashMinted")
    /\ Len(flash[LastEvent(events).to]) >= 2

\* C13 burnExpired result: burnExpired(account) at time now returns the
\* expiredBalanceOf(account) of the state it was called in, leaves the account
\* no tranche with expiresAt <= now at any position, decreases
\* balanceOf(account) and totalSupply by the returned amount, and records one
\* ExpiredBalanceBurned(account, burned, now) event if and only if the
\* returned amount is > 0.
C13_BurnExpiredResult ==
    /\ [](\A a \in Addr :
            LET r == SyncExpiry(Storage, a, now)
            IN /\ r[2] = expiredBalanceOf(a)
               /\ \A i \in DOMAIN r[1].flash[a] : r[1].flash[a][i].expiresAt > now)
    /\ [][(now' = now /\ last'.op = "burnExpired") =>
            LET a == last'.account
                burned == last'.ret
            IN /\ last'.ok
               /\ burned = expiredBalanceOf(a)
               /\ \A i \in DOMAIN flash'[a] : flash'[a][i].expiresAt > now
               /\ balances'[a] = balances[a] - burned
               /\ totalSupply' = totalSupply - burned
               /\ IF burned > 0
                  THEN /\ Cardinality(EventsNamed(events', "ExpiredBalanceBurned")) = 1
                       /\ LastEvent(events') =
                             [name |-> "ExpiredBalanceBurned", account |-> a,
                              amount |-> burned, burnedAt |-> now]
                  ELSE events' = <<>>]_vars

\* a burnExpired has burned more than one unit and left the account an
\* unexpired tranche
C13_Witness ==
    /\ last.op = "burnExpired"
    /\ last.at = now
    /\ last.ret >= 2
    /\ flash[last.account] # <<>>
    /\ EventsNamed(events, "ExpiredBalanceBurned") # {}

\* C14 Permissionless cleanup cannot be blocked: in every reachable state
\* burnExpired(account) completes for every account, the zero account and
\* accounts without tranches included, and every burnExpired that was called
\* completed.
C14_CleanupNeverFails ==
    /\ \A account \in Addr :
          LET r == SyncExpiry(Storage, account, now)
          IN r[1].ok /\ r[1].err = ""
    /\ last.op = "burnExpired" => last.ok

\* a burnExpired of the zero account, which holds no tranches, has completed
\* while a holder carries expired tranches
C14_Witness ==
    /\ last.op = "burnExpired"
    /\ last.account = ZeroAddress
    /\ last.ok
    /\ last.at = now
    /\ flash[ZeroAddress] = <<>>
    /\ \E a \in Holders : expiredBalanceOf(a) > 0

\* the number of records of a tranche array equal to one (amount, expiresAt)
RecordsOf(tr, r) == Cardinality({i \in DOMAIN tr : tr[i] = r})

\* the non-expired records of tr at timestamp t are those of tr2, up to order
SameUnexpired(tr, tr2, t) ==
    \A k \in 1..(MaxSupply + 1), e \in Expiries :
        e > t => RecordsOf(tr2, FlashBalance(k, e)) = RecordsOf(tr, FlashBalance(k, e))

\* C15 Frame of burnExpired: burnExpired(account) and sweepExpired leave
\* every account's activeBalanceOf and the (amount, expiresAt) of each of its
\* non-expired tranches as they were, positions aside; burnExpired(account)
\* leaves the tranches and the balance of every other account untouched; no
\* balance ever falls below the account's unexpired value through them.
C15_BurnExpiredFrame ==
    [][(now' = now /\ last'.op \in {"burnExpired", "sweepExpired"}) =>
         /\ \A a \in Addr :
               /\ ActiveSum(flash'[a], 1, now) = activeBalanceOf(a)
               /\ SameUnexpired(flash[a], flash'[a], now)
               /\ balances'[a] \in {balances[a], balances[a] - expiredBalanceOf(a)}
         /\ last'.op = "burnExpired" =>
               \A a \in Addr \ {last'.account} :
                   flash'[a] = flash[a] /\ balances'[a] = balances[a]]_vars

\* a burnExpired has burned expired value of an account that keeps an
\* unexpired tranche, while the other holder's expired tranche is still stored
C15_Witness ==
    /\ last.op = "burnExpired"
    /\ last.at = now
    /\ last.ret > 0
    /\ activeBalanceOf(last.account) > 0
    /\ \E a \in Holders \ {last.account} : expiredBalanceOf(a) > 0

\* one burnExpired transaction per list element, in list order, at timestamp
\* t: each call starts with an empty log and is committed or rolled back on
\* its own; log collects the ExpiredBalanceBurned events of the calls
RECURSIVE BurnEach(_, _, _, _)
BurnEach(s, log, accounts, t) ==
    IF accounts = <<>> THEN [state |-> s, log |-> log, ok |-> TRUE]
    ELSE LET r    == SyncExpiry([s EXCEPT !.events = <<>>], Head(accounts), t)[1]
             kept == IF r.ok THEN r ELSE s
             ev   == IF r.ok THEN r.events ELSE <<>>
             b    == BurnEach(kept, log \o SelectSeq(ev, LAMBDA e : e.name = "ExpiredBalanceBurned"),
                              Tail(accounts), t)
         IN [b EXCEPT !.ok = r.ok /\ b.ok]

\* the accounts of a list that hold expired tranches
WithExpired(accounts) ==
    {a \in Addr : (\E i \in DOMAIN accounts : accounts[i] = a) /\ expiredBalanceOf(a) > 0}

\* sweepExpired(accounts) in the current state agrees with one burnExpired
\* per list element
SweepAsBurns(accounts) ==
    LET s  == SweepLoop(Storage, accounts, 1, now)
        b  == BurnEach(Storage, <<>>, accounts, now)
        bl == SelectSeq(s.events, LAMBDA e : e.name = "ExpiredBalanceBurned")
    IN /\ s.ok /\ b.ok
       /\ s.flash = b.state.flash
       /\ s.balances = b.state.balances
       /\ s.totalSupply = b.state.totalSupply
       /\ bl = b.log
       /\ Len(bl) = Cardinality(WithExpired(accounts))
       /\ \A a \in WithExpired(accounts) :
             Cardinality({i \in DOMAIN bl : bl[i].account = a}) = 1

\* C16 sweepExpired(accounts) ends in the same state and records the same
\* sequence of ExpiredBalanceBurned events as one burnExpired per list
\* element in list order at the same time; elements without expired tranches
\* and repeated elements record no event; the call never fails.
C16_SweepEquivalence ==
    /\ [](\A accounts \in SweepLists : SweepAsBurns(accounts))
    /\ [][(now' = now /\ last'.op = "sweepExpired") =>
            /\ last'.ok
            /\ \E accounts \in SweepLists :
                  LET b == BurnEach(Storage, <<>>, accounts, now)
                  IN /\ flash' = b.state.flash
                     /\ balances' = b.state.balances
                     /\ totalSupply' = b.state.totalSupply
                     /\ SelectSeq(events', LAMBDA e : e.name = "ExpiredBalanceBurned")
                           = b.log]_vars

\* a sweepExpired has burned the expired tranches of both holders, the second
\* holder's first
C16_Witness ==
    /\ last.op = "sweepExpired"
    /\ last.ok
    /\ LET bl == SelectSeq(events, LAMBDA e : e.name = "ExpiredBalanceBurned")
       IN /\ Len(bl) = 2
          /\ bl[1].account = 2
          /\ bl[2].account = 1

\* a step is a successful transfer between two different accounts; its
\* arguments are those of the Transfer event that ends its log
TransferStep ==
    /\ now' = now
    /\ last'.op = "transfer"
    /\ last'.ok
    /\ IsEvent(events', "Transfer")
    /\ LastEvent(events').from # LastEvent(events').to

\* what `from` holds less under expiresAt e after the step
Left(from, e) == HeldIn(flash[from], e) - HeldIn(flash'[from], e)

\* what `to` holds more under expiresAt e after the step
Arrived(to, e) == HeldIn(flash'[to], e) - HeldIn(flash[to], e)

\* C17 as stated: in a successful transfer between different accounts, for
\* every expiresAt E the receiver gains under E what the sender loses under
\* E, the per-expiry movements sum to the amount, and the two balances change
\* by the same amount.
C17_TransferPreservesExpiries ==
    [][TransferStep =>
         LET m == LastEvent(events')
         IN /\ \A e \in Expiries : Arrived(m.to, e) = Left(m.from, e)
            /\ SumOver(Expiries, [e \in Expiries |-> Left(m.from, e)]) = m.value
            /\ balances[m.from] - balances'[m.from] = balances'[m.to] - balances[m.to]]_vars

\* C17 Transfer preserves expiries, with the synchronisation accounted for: in
\* a successful transfer between different accounts, for every expiresAt E >
\* now the receiver gains under E what the sender loses under E and these
\* movements sum to the amount; tranches with expiresAt <= now of both sides
\* are burned, not moved; balanceOf(from) falls by the amount plus the
\* sender's expired balance and balanceOf(to) rises by the amount minus the
\* receiver's expired balance.
C17_TransferPreservesUnexpired ==
    [][TransferStep =>
         LET m == LastEvent(events')
             F == {e \in Expiries : e > now}
         IN /\ \A e \in F : Arrived(m.to, e) = Left(m.from, e) /\ Left(m.from, e) >= 0
            /\ SumOver(F, [e \in F |-> Left(m.from, e)]) = m.value
            /\ \A e \in Expiries \ F :
                  HeldIn(flash'[m.from], e) = 0 /\ HeldIn(flash'[m.to], e) = 0
            /\ balances'[m.from] = balances[m.from] - expiredBalanceOf(m.from) - m.value
            /\ balances'[m.to] = balances[m.to] - expiredBalanceOf(m.to) + m.value
            /\ (expiredBalanceOf(m.from) = 0 /\ expiredBalanceOf(m.to) = 0)
                  => /\ \A e \in Expiries : Arrived(m.to, e) = Left(m.from, e)
                     /\ balances[m.from] - balances'[m.from]
                           = balances'[m.to] - balances[m.to]]_vars

\* a successful transfer has burned an expired tranche and moved value of two
\* different expiries to the receiver
C17_Witness ==
    /\ last.op = "transfer"
    /\ last.ok
    /\ last.at = now
    /\ IsEvent(events, "Transfer")
    /\ LastEvent(events).from # LastEvent(events).to
    /\ LastEvent(events).value = 2
    /\ EventsNamed(events, "ExpiredBalanceBurned") # {}
    /\ Len(flash[LastEvent(events).to]) = 2

Min2(a, b) == IF a <= b THEN a ELSE b

\* the storage after the owner's mintFlash(to, recs[i].amount,
\* recs[i].expiresAt) for i = 1, 2, ... in this order at timestamp t
RECURSIVE MintedInOrder(_, _, _, _)
MintedInOrder(s, to, recs, t) ==
    IF recs = <<>> THEN s
    ELSE MintedInOrder(MintFlashCall(s, owner, to, Head(recs).amount,
                                     Head(recs).expiresAt, t),
                       to, Tail(recs), t)

\* what a transfer of v at timestamp t takes from the record of expiresAt e
\* of holder h, whose tranches were appended as recs, in this order, at the
\* current time to an empty ledger
TakenFrom(h, recs, v, t, e) ==
    LET s == MintedInOrder(Storage, h, recs, now)
        r == TransferCall(s, h, CHOOSE to \in Holders : to # h, v, t)
    IN IF r.ok THEN HeldIn(s.flash[h], e) - HeldIn(r.flash[h], e) ELSE -1

\* (while totalSupply is 0) three tranches of different unexpired expiries
\* appended to an empty array
\* in the order T1, T2, T3, and a transfer that needs more than T1 and less
\* than everything
ThreeAppended ==
    {x \in [h : Holders, a1 : Amounts \ {0}, a2 : Amounts \ {0}, a3 : Amounts \ {0},
            e1 : Expiries, e2 : Expiries, e3 : Expiries, v : 2..5] :
        /\ x.e1 > now /\ x.e2 > now /\ x.e3 > now
        /\ Cardinality({x.e1, x.e2, x.e3}) = 3
        /\ x.v > x.a1
        /\ x.v < x.a1 + x.a2 + x.a3}

RecsOf(x) == <<FlashBalance(x.a1, x.e1), FlashBalance(x.a2, x.e2), FlashBalance(x.a3, x.e3)>>

\* a tranche X appended first, then T1 and T2 of later, different expiries;
\* a transfer of less than T1 + T2 at the time X expires
TwoSurvivors ==
    {x \in [h : Holders, a1 : Amounts \ {0}, a2 : Amounts \ {0}, a3 : Amounts \ {0},
            e1 : Expiries, e2 : Expiries, e3 : Expiries, v : 1..3] :
        /\ x.e1 > now /\ x.e2 > x.e1 /\ x.e3 > x.e1 /\ x.e2 # x.e3
        /\ x.v < x.a2 + x.a3}

C19_BalanceIsActive ==
    \A a \in Addr : balanceOf(a) = activeBalanceOf(a)

\* C19 Total balance, with lazy expiry: in every reachable state balanceOf
\* exceeds activeBalanceOf by exactly expiredBalanceOf, the amount of the
\* expired tranches not yet burned; the two are equal for an account without
\* stored expired tranches, and a synchronisation of the account (burnExpired)
\* makes them equal at the time it runs.
C19_BalanceIsActivePlusExpired ==
    /\ \A a \in Addr :
          /\ balanceOf(a) - activeBalanceOf(a) = expiredBalanceOf(a)
          /\ (\A i \in DOMAIN flash[a] : flash[a][i].expiresAt > now)
                => balanceOf(a) = activeBalanceOf(a)
          /\ SyncExpiry(Storage, a, now)[1].balances[a] = activeBalanceOf(a)
    /\ (last.op = "burnExpired" /\ last.at = now)
          => balanceOf(last.account) = activeBalanceOf(last.account)

\* one holder's balance still counts an expired tranche next to an active
\* one, while the other holder's expired tranche has just been burned
C19_Witness ==
    /\ last.op = "burnExpired"
    /\ last.at = now
    /\ last.ret > 0
    /\ \E a \in Holders \ {last.account} :
          /\ activeBalanceOf(a) > 0
          /\ balanceOf(a) > activeBalanceOf(a)

\* the timestamps at which the views of a mint made at last.at are evaluated
TimesAfterMint == last.at..(MaxTime + 2)

\* the most recent call is a successful mintFlash(to, A, E) and `to` holds
\* nothing but the tranche (A, E) it created
SoleMint ==
    /\ last.op = "mintFlash"
    /\ last.ok
    /\ IsEvent(events, "FlashMinted")
    /\ flash[LastEvent(events).to]
          = <<FlashBalance(LastEvent(events).amount, LastEvent(events).expiresAt)>>

\* C20 Expiry is a pure time predicate with an inclusive boundary: after
\* minting A with expiry E to an account holding nothing else, and no further
\* operation, at every time t < E activeBalanceOf is A, expiredBalanceOf is 0
\* and burnExpired returns 0; at every time t >= E, t = E included,
\* activeBalanceOf is 0, expiredBalanceOf is A, and burnExpired returns A and
\* leaves balanceOf 0.
C20_ExpiryBoundary ==
    SoleMint =>
       LET m  == LastEvent(events)
           tr == flash[m.to]
       IN /\ balanceOf(m.to) = m.amount
          /\ activeBalanceOf(m.to) = (IF now < m.expiresAt THEN m.amount ELSE 0)
          /\ expiredBalanceOf(m.to) = (IF now < m.expiresAt THEN 0 ELSE m.amount)
          /\ \A t \in TimesAfterMint :
                LET r == SyncExpiry(Storage, m.to, t)
                IN IF t < m.expiresAt
                   THEN /\ ActiveSum(tr, 1, t) = m.amount
                        /\ ExpiredSum(tr, 1, t) = 0
                        /\ r[2] = 0
                        /\ r[1].balances[m.to] = m.amount
                        /\ r[1].flash[m.to] = tr
                   ELSE /\ ActiveSum(tr, 1, t) = 0
                        /\ ExpiredSum(tr, 1, t) = m.amount
                        /\ r[2] = m.amount
                        /\ r[1].balances[m.to] = 0
                        /\ r[1].flash[m.to] = <<>>

\* time has reached the expiresAt of the only tranche of an account since the
\* mintFlash that created it, and nothing else was called
C20_Witness ==
    /\ SoleMint
    /\ last.at < now
    /\ now = LastEvent(events).expiresAt
    /\ expiredBalanceOf(LastEvent(events).to) = LastEvent(events).amount

\* every record of every array of a mapping has amount > 0
NoZeroTranche(fl) == \A a \in Addr : \A i \in DOMAIN fl[a] : fl[a][i].amount > 0

\* C21 No zero tranches: in every reachable state every stored tranche has
\* amount > 0; a transfer, and a consumption by the burn path of _update,
\* leaves no tranche of amount 0 behind, and a transfer of amount 0 leaves the
\* receiver exactly its unexpired tranches, creating none.
C21_NoZeroTranches ==
    /\ NoZeroTranche(flash)
    /\ \A from \in Holders, v \in Amounts :
          /\ \A to \in Holders :
                LET r == TransferCall(Storage, from, to, v, now)
                IN r.ok => NoZeroTranche(r.flash)
          /\ LET b == Update(Storage, from, ZeroAddress, v, now)
             IN b.ok => NoZeroTranche(b.flash)
    /\ \A from \in Holders : \A to \in Holders \ {from} :
          LET r == TransferCall(Storage, from, to, 0, now)
          IN /\ r.ok
             /\ r.flash[to] = SyncLoop(flash[to], 1, 0, now)[1]
             /\ r.flash[from] = SyncLoop(flash[from], 1, 0, now)[1]

\* a transfer has emptied the only tranche of its sender, which now stores
\* none, and the receiver stores the value
C21_Witness ==
    /\ last.op = "transfer"
    /\ last.ok
    /\ IsEvent(events, "Transfer")
    /\ LET m == LastEvent(events)
       IN /\ m.from # m.to
          /\ m.value = 2
          /\ flash[m.from] = <<>>
          /\ Len(flash[m.to]) = 1
          /\ flash[m.to][1].amount = 2

\* an array stores no tranche with expiresAt <= t
Clean(tr, t) == \A i \in DOMAIN tr : tr[i].expiresAt > t

\* C22 Touch implies clean: right after a successful transfer (of amount 0
\* too) the sender and the receiver store no tranche with expiresAt <= now,
\* and so do the recipient of a successful mintFlash and every account passed
\* to burnExpired or sweepExpired.
C22_TouchImpliesClean ==
    /\ (last.at = now /\ last.ok /\ last.op = "transfer")
          => /\ IsEvent(events, "Transfer")
             /\ Clean(flash[LastEvent(events).from], now)
             /\ Clean(flash[LastEvent(events).to], now)
             /\ expiredBalanceOf(LastEvent(events).from) = 0
             /\ expiredBalanceOf(LastEvent(events).to) = 0
    /\ (last.at = now /\ last.ok /\ last.op = "mintFlash")
          => /\ IsEvent(events, "FlashMinted")
             /\ Clean(flash[LastEvent(events).to], now)
    /\ (last.at = now /\ last.op = "burnExpired")
          => Clean(flash[last.account], now)
    /\ \A accounts \in SweepLists :
          LET r == SweepLoop(Storage, accounts, 1, now)
          IN r.ok /\ \A i \in DOMAIN accounts : Clean(r.flash[accounts[i]], now)
    /\ \A from \in Holders, to \in Holders, v \in Amounts :
          LET r == TransferCall(Storage, from, to, v, now)
          IN r.ok => Clean(r.flash[from], now) /\ Clean(r.flash[to], now)

\* a transfer of amount 0 has burned expired tranches of its sender and of
\* its receiver
C22_Witness ==
    /\ last.op = "transfer"
    /\ last.ok
    /\ last.at = now
    /\ IsEvent(events, "Transfer")
    /\ LastEvent(events).value = 0
    /\ LastEvent(events).from # LastEvent(events).to
    /\ Cardinality(EventsNamed(events, "ExpiredBalanceBurned")) = 2

\* expirationMs values for buildMintCallArgs, both sides of the minimum
ExpirationAll == ExpirationInputs \cup {Ms(0), Ms(61500), Ms(3600000)}

\* s is floor(ms / 1000)
IsFloorSeconds(s, ms) == 1000 * s <= ms /\ ms < 1000 * (s + 1)

\* the errors buildMintCallArgs throws for the ABI
SignatureErrors ==
    {"mintFlash function not found in ABI.",
     "Unsupported mintFlash signature. Expected 2 or 3 inputs."}

\* C23 Mint signature detection: for a 3-input mintFlash buildMintCallArgs
\* returns (to, amount, floor((now + expirationMs) / 1000)) and rejects an
\* expirationMs that is not finite or below 60000; for a 2-input mintFlash it
\* returns (to, amount) whatever the expiry; for a missing mintFlash or any
\* other input count it fails, and the request then broadcasts nothing.
C23_MintSignatureDetection ==
    /\ \A to \in ToInputs, amount \in AmountInputs, e \in ExpirationAll,
          nowMs \in ClockReadings :
          LET r3 == BuildMintCallArgs(3, to, amount, e, nowMs)
              r2 == BuildMintCallArgs(2, to, amount, e, nowMs)
          IN /\ r3.ok <=> (e.finite /\ e.ms >= 60000)
             /\ r3.ok => /\ Len(r3.args) = 3
                         /\ r3.args[1] = to
                         /\ r3.args[2] = amount
                         /\ IsFloorSeconds(r3.args[3], nowMs + e.ms)
             /\ ~r3.ok => r3.error = "Expiration must be at least 1 minute."
             /\ r2.ok /\ r2.args = <<to, amount>>
             /\ \A n \in {-1, 0, 1, 4} :
                   LET r == BuildMintCallArgs(n, to, amount, e, nowMs)
                   IN ~r.ok /\ r.args = <<>> /\ r.error \in SignatureErrors
    /\ \A p \in Payloads, env \in Envs, nowMs \in RequestClock :
          LET r == TxSendHandler(build, p, env, nowMs, txCount)
          IN /\ (env.abi \notin {2, 3}) => r.hash = 0
             /\ r.error \in SignatureErrors => (r.hash = 0 /\ env.abi \notin {2, 3})
    /\ reply.error \in SignatureErrors => reply.hash = 0

\* a request has failed on an ABI whose mintFlash has neither 2 nor 3 inputs,
\* after another request was broadcast
C23_Witness ==
    /\ reply.kind = "returned"
    /\ reply.error = "Unsupported mintFlash signature. Expected 2 or 3 inputs."
    /\ txCount = 1
    /\ Len(history) = 1

\* the status the entry of a transaction must show for the state of its
\* tx.wait() promise
StatusFor(promise) ==
    IF promise = "unsettled" THEN "pending"
    ELSE IF promise = "receipt 1" THEN "confirmed"
    ELSE "failed"

\* the ids of the entries of a history
IdsOf(h) == {h[i].id : i \in DOMAIN h}

\* C24 Transaction status lifecycle: an entry is created with status pending
\* by the request that broadcast its transaction; it is confirmed if and only
\* if the receipt reported status 1 and failed if and only if the receipt
\* reported another status or the wait was rejected; a status only ever
\* changes from pending, so it changes at most once and confirmed and failed
\* are terminal.
C24_StatusLifecycle ==
    /\ [](/\ \A i \in DOMAIN history :
                /\ history[i].id \in 1..txCount
                /\ history[i].status = StatusFor(waiting[history[i].id])
                /\ \A j \in DOMAIN history : history[j].id = history[i].id => j = i
          /\ txCount <= HistoryLimit => IdsOf(history) = 1..txCount)
    /\ [][/\ \A i \in DOMAIN history' :
                history'[i].id \notin IdsOf(history)
                   => /\ history'[i].status = "pending"
                      /\ history'[i].id = txCount'
                      /\ txCount' = txCount + 1
                      /\ reply'.hash = history'[i].id
          /\ \A i \in DOMAIN history, j \in DOMAIN history' :
                (history'[j].id = history[i].id /\ history'[j].status # history[i].status)
                   => /\ history[i].status = "pending"
                      /\ history'[j].status \in {"confirmed", "failed"}
                      /\ waiting[history[i].id] = "unsettled"
                      /\ history'[j].status = StatusFor(waiting'[history[i].id])
          /\ IdsOf(history) \subseteq IdsOf(history')]_vars

\* the first transaction was confirmed and the second failed on a receipt
\* whose status is not 1
C24_Witness ==
    /\ Len(history) = 2
    /\ history[2] = [id |-> 1, status |-> "confirmed"]
    /\ history[1] = [id |-> 2, status |-> "failed"]
    /\ waiting[2] = "receipt 0"

\* step a completed before step b in a trace
Before(trace, a, b) ==
    \E i \in DOMAIN trace, j \in DOMAIN trace : i < j /\ trace[i] = a /\ trace[j] = b

Did(trace, a) == \E i \in DOMAIN trace : trace[i] = a

\* an outcome of tx:send in which the owner check and the static call
\* completed before the broadcast, if there was one, and in which a history
\* entry was written only after a broadcast
Preflighted(r) ==
    /\ Did(r.trace, "broadcast") <=> r.hash # 0
    /\ r.hash # 0 => /\ Before(r.trace, "assertOwnerIfAvailable", "broadcast")
                     /\ Before(r.trace, "staticCall", "broadcast")
    /\ Did(r.trace, "writeHistory") => Before(r.trace, "broadcast", "writeHistory")

\* what holds of sendMintFlash in both revisions: a broadcast needs the call
\* arguments built, a failure before the broadcast sends nothing and writes
\* no entry, and the entries are those of the broadcast transactions
BroadcastDiscipline ==
    /\ \A p \in Payloads, env \in Envs, nowMs \in RequestClock :
          LET r == TxSendHandler(build, p, env, nowMs, txCount)
          IN /\ Did(r.trace, "broadcast") <=> r.hash # 0
             /\ Did(r.trace, "writeHistory") <=> r.hash # 0
             /\ r.hash # 0 => /\ r.ok
                              /\ Before(r.trace, "buildMintCallArgs", "broadcast")
                              /\ Before(r.trace, "broadcast", "writeHistory")
                              /\ BuildMintCallArgs(env.abi, p.to, p.amount,
                                                   p.expirationMs, nowMs).ok
             /\ ~r.ok => r.hash = 0
    /\ IdsOf(history) \subseteq 1..txCount
    /\ Len(history) <= txCount

NotGreaterThanZero(amount) == amount \in {"0", "abc"}

\* a payload tx:send must refuse
InvalidPayload(p) ==
    \/ ~isAddress(p.to)
    \/ p.privateKey = ""
    \/ p.privateKey \in {"abc"}
    \/ NotGreaterThanZero(p.amount)
    \/ ~p.expirationMs.finite
    \/ p.expirationMs.ms < 60000

\* the messages of the handler's own checks and of the conversion of the amount
ValidationErrors ==
    {"Invalid destination wallet address.", "Private key must include 0x prefix.",
     "Amount must be greater than zero.", "Expiration must be at least 1 minute.",
     "invalid decimal string"}

\* an invalid payload broadcasts nothing and writes no entry, and a request
\* that failed broadcast nothing
RefusedWithoutEffect(r, p) ==
    /\ InvalidPayload(p) => (~r.ok /\ r.hash = 0 /\ ~Did(r.trace, "broadcast")
                             /\ ~Did(r.trace, "writeHistory"))
    /\ ~r.ok => r.hash = 0
    /\ r.ok => r.kind = "returned"

\* C26 as stated: tx:send returns {ok: false, error} without broadcasting and
\* without writing history for every invalid payload, and every error is
\* returned as {ok: false, error}, never thrown.
C26_SendValidation ==
    /\ reply.kind # "thrown"
    /\ \A p \in Payloads, env \in Envs, nowMs \in RequestClock :
          LET r == TxSendHandler(build, p, env, nowMs, txCount)
          IN /\ RefusedWithoutEffect(r, p)
             /\ r.kind = "returned"

\* C26 Send-request validation, with the configuration accounted for: an
\* invalid payload never broadcasts and never writes history; once
\* loadConfig() has returned, the handler returns {ok: false, error} for it,
\* and every error raised by the checks or by sendMintFlash is returned, not
\* thrown; only an error of loadConfig(), which is called before the try
\* block, is thrown to the caller.
C26_SendValidationAfterConfig ==
    /\ reply.kind = "thrown" => (reply.trace = <<>> /\ reply.hash = 0)
    /\ reply.ok => reply.kind = "returned"
    /\ ~reply.ok => reply.hash = 0
    /\ \A p \in Payloads, env \in Envs, nowMs \in RequestClock :
          LET r == TxSendHandler(build, p, env, nowMs, txCount)
          IN /\ RefusedWithoutEffect(r, p)
             /\ r.kind = "thrown" <=> env.config = "throws"
             /\ env.config # "throws" => r.kind = "returned"
             /\ (env.config = "ok" /\ InvalidPayload(p))
                   => (r.kind = "returned" /\ ~r.ok /\ r.error \in ValidationErrors)
             /\ (env.config = "ok" /\ ~InvalidPayload(p) /\ ~r.ok)
                   => (r.kind = "returned" /\ r.error \notin ValidationErrors)

\* a request with an expirationMs below the minimum has been refused after an
\* earlier request was broadcast, and the history holds that one entry only
C26_Witness ==
    /\ reply.kind = "returned"
    /\ ~reply.ok
    /\ reply.error = "Expiration must be at least 1 minute."
    /\ reply.hash = 0
    /\ txCount = 1
    /\ Len(history) = 1

\* what _update(account, address(0), v) must leave: the expired records burned,
\* then exactly v taken from the unexpired ones, nothing else touched
BurnedFrom(s, account, v) ==
    LET active  == ActiveSum(flash[account], 1, now)
        expired == ExpiredSum(flash[account], 1, now)
    IN IF v <= active
       THEN /\ s.ok
            /\ SumAmounts(s.flash[account]) = active - v
            /\ ActiveSum(s.flash[account], 1, now) = active - v
            /\ \A e \in Expiries : HeldIn(s.flash[account], e) <= HeldIn(flash[account], e)
            /\ s.balances[account] = balances[account] - expired - v
            /\ s.totalSupply = totalSupply - expired - v
            /\ \A other \in Addr \ {account} :
                  s.flash[other] = flash[other] /\ s.balances[other] = balances[other]
            /\ s.flash[ZeroAddress] = <<>>
            /\ SelectSeq(s.events, LAMBDA e : e.name = "ExpiredBalanceBurned")
                  = IF expired > 0
                    THEN <<[name |-> "ExpiredBalanceBurned", account |-> account,
                            amount |-> expired, burnedAt |-> now]>>
                    ELSE <<>>
            /\ s.events[Len(s.events)]
                  = [name |-> "Transfer", from |-> account, to |-> ZeroAddress, value |-> v]
       ELSE /\ ~s.ok
            /\ s.err = "Insufficient active flash balance"

\* C27 Burn path: burning v from an account through _update with the zero
\* account as receiver first burns the account's expired tranches, then
\* consumes exactly v from its remaining tranches, and fails leaving the state
\* as it was if v exceeds the remaining active amount; the zero account never
\* holds a tranche.
C27_BurnPath ==
    /\ flash[ZeroAddress] = <<>>
    /\ \A account \in Holders, v \in Amounts :
          BurnedFrom(Update(Storage, account, ZeroAddress, v, now), account, v)
    /\ (last.op = "burn" /\ ~last.ok)
          => (events = <<>> /\ last.err = "Insufficient active flash balance")
    /\ (last.op = "burn" /\ last.ok /\ last.at = now)
          => /\ IsEvent(events, "Transfer")
             /\ LastEvent(events).from = last.account
             /\ LastEvent(events).to = ZeroAddress
             /\ LastEvent(events).value = last.ret
             /\ ExpiredSum(flash[last.account], 1, now) = 0

\* a burn of a positive value has burned the account's expired tranche first and
\* then taken the value from a tranche that is still held in part
C27_Witness ==
    /\ last.op = "burn"
    /\ last.ok
    /\ last.ret = 1
    /\ Len(events) = 3
    /\ events[2].name = "ExpiredBalanceBurned"
    /\ events[3].name = "Transfer"
    /\ events[3].value = 1
    /\ flash[last.account] # <<>>
    /\ flash[ZeroAddress] = <<>>

\* the values tried in a self-transfer: up to more than any balance
SelfTransferAmounts == 0 .. MaxSupply + 2

\* what transfer(account, account, v) must leave
SelfTransferred(s, account, v) ==
    LET active  == ActiveSum(flash[account], 1, now)
        expired == ExpiredSum(flash[account], 1, now)
    IN IF v <= active
       THEN /\ s.ok
            /\ s.balances[account] = balances[account] - expired
            /\ s.balances[account] = active
            /\ s.totalSupply = totalSupply - expired
            /\ \A e \in Expiries :
                  HeldIn(s.flash[account], e)
                     = IF e > now THEN HeldIn(flash[account], e) ELSE 0
            /\ NoZeroTranche(s.flash)
            /\ \A other \in Addr \ {account} :
                  s.flash[other] = flash[other] /\ s.balances[other] = balances[other]
            /\ LastEvent(s.events)
                  = [name |-> "Transfer", from |-> account, to |-> account, value |-> v]
       ELSE /\ ~s.ok
            /\ s.err \in {"Insufficient active flash balance", "ERC20InsufficientBalance"}

\* C28 Self-transfer: a transfer from an account to itself of at most its
\* active balance succeeds and leaves balanceOf, totalSupply and the amount held
\* under every expiresAt as they were, apart from the burning of the account's
\* expired tranches; a self-transfer of more than the active balance reverts.
C28_SelfTransfer ==
    \A account \in Holders, v \in SelfTransferAmounts :
        SelfTransferred(TransferCall(Storage, account, account, v, now), account, v)

\* an account has transferred 1 to itself out of a tranche of 2 that is not its
\* last one: the part moved was appended to the array being read
C28_Witness ==
    /\ last.op = "transfer"
    /\ last.ok
    /\ events # <<>>
    /\ \E account \in Holders :
          /\ LastEvent(events)
                = [name |-> "Transfer", from |-> account, to |-> account, value |-> 1]
          /\ Len(flash[account]) = 3
          /\ flash[account][1].expiresAt = flash[account][3].expiresAt
          /\ flash[account][1].expiresAt # flash[account][2].expiresAt

\* a quantity that bounds the iterations still to come
Measure(fl, st) ==
    IF st.fn = "_syncExpiry" THEN Len(fl[st.from]) + 1 - st.i ELSE st.remaining

\* what the loop, run as a whole, returns for the arguments it was started with
LoopResult(st) ==
    IF st.fn = "_syncExpiry"
    THEN LET r == SyncLoop(st.fl0[st.from], 1, 0, now)
         IN [flash |-> [st.fl0 EXCEPT ![st.from] = r[1]], burned |-> r[2], remaining |-> 0]
    ELSE IF st.fn = "_moveTranches"
    THEN LET r == MoveLoop(st.fl0, st.from, st.to, st.amount, 1)
         IN [flash |-> r[1], burned |-> 0, remaining |-> r[2]]
    ELSE LET r == ConsumeLoop(st.fl0[st.from], st.amount, 1)
         IN [flash |-> [st.fl0 EXCEPT ![st.from] = r[1]], burned |-> 0, remaining |-> r[2]]

\* one iteration makes progress
IterationProgress ==
    (loop.pc = "loop" /\ loop'.pc = "loop")
       => /\ \/ Len(flash'[loop.from]) < Len(flash[loop.from])
             \/ loop'.i > loop.i
             \/ loop'.remaining < loop.remaining
          /\ Measure(flash', loop') < Measure(flash, loop)
          /\ Measure(flash', loop') >= 0

\* C29 Termination of the tranche loops: started on any tranche arrays of
\* positive records with any amount, the loops of _syncExpiry, _moveTranches
\* (also with sender equal to receiver) and _consumeFromTranches are left after
\* finitely many iterations; each iteration removes a tranche, advances the
\* index or strictly decreases the remaining amount, and the state the loop is
\* left in is the one the loop computes as a whole.
C29_LoopsTerminate ==
    /\ [][IterationProgress]_vars
    /\ (loop.pc = "loop") ~> (loop.pc = "exit")
    /\ [](loop.pc = "exit"
            => /\ flash = LoopResult(loop).flash
               /\ loop.burned = LoopResult(loop).burned
               /\ loop.fn # "_syncExpiry" => loop.remaining = LoopResult(loop).remaining
               /\ loop.steps <= Len(loop.fl0[loop.from]) + loop.amount)

\* _moveTranches with sender equal to receiver has left its loop after taking
\* the same first record several times
C29_Witness ==
    /\ loop.pc = "exit"
    /\ loop.fn = "_moveTranches"
    /\ loop.from = loop.to
    /\ loop.steps >= 3
    /\ loop.remaining = 0
    /\ Len(flash[loop.from]) >= 2
    /\ flash[loop.from] = loop.fl0[loop.from]

\* the step is a call (the clock stands still) in which the account is the
\* receiver of a Transfer event: a mint to it or a transfer to it
ReceivesIn(ev, account) ==
    \E k \in DOMAIN ev : ev[k].name = "Transfer" /\ ev[k].to = account

\* the step is a successful mintFlash
MintsIn(ev) == \E k \in DOMAIN ev : ev[k].name = "FlashMinted"

ActiveDecayStep ==
    /\ \A account \in Addr :
          LET before == ActiveSum(flash[account], 1, now)
              after  == ActiveSum(flash'[account], 1, now')
          IN /\ now' # now => after <= before
             /\ (now' = now /\ ~ReceivesIn(events', account)) => after <= before
             /\ (now' = now /\ last'.op \in {"burnExpired", "sweepExpired"}
                   /\ ~MintsIn(events') /\ ~ReceivesIn(events', account))
                   => after = before
    /\ (now' # now \/ ~MintsIn(events')) => totalSupply' <= totalSupply

\* C30 Active balance only decays by itself: in a step in which an account
\* receives no mint and no incoming transfer its activeBalanceOf does not
\* increase, whether the clock advances or a call is made; burnExpired and
\* sweepExpired leave every activeBalanceOf as it was; totalSupply does not
\* increase in a step that is not a successful mintFlash.
C30_ActiveOnlyDecays == [][ActiveDecayStep]_vars

\* burnExpired has just burned an account's expired tranche after the clock
\* advanced past its expiry, and the account still holds an active tranche
C30_Witness ==
    /\ last.op = "burnExpired"
    /\ last.ok
    /\ last.ret > 0
    /\ last.at = now
    /\ now > 0
    /\ ActiveSum(flash[last.account], 1, now) > 0
    /\ ActiveSum(flash[last.account], 1, now) = balances[last.account]

\* the transaction whose tx.wait() settles in this step, if the step is a callback
SettledIn(id) == waiting[id] = "unsettled" /\ waiting'[id] # "unsettled"

\* a callback of tx.wait() rewrites the entry of its own transaction only
CallbackTouchesOwnEntry ==
    (\E id \in DOMAIN waiting : SettledIn(id))
       => /\ Len(history') = Len(history)
          /\ \A i \in DOMAIN history :
                /\ history'[i].id = history[i].id
                /\ history'[i] # history[i]
                      => (SettledIn(history[i].id) /\ history[i].status = "pending")
          /\ \A i \in DOMAIN history :
                SettledIn(history[i].id) => history'[i].status # "pending"

\* a broadcast puts its entry first and keeps the newest entries behind it
SendKeepsNewest ==
    txCount' # txCount
       => /\ history'[1] = PendingEntry(txCount')
          /\ Len(history') = (IF Len(history) < HistoryLimit THEN Len(history) + 1
                              ELSE HistoryLimit)
          /\ \A i \in 2 .. Len(history') : history'[i] = history[i - 1]

\* C31 History updates do not interfere: with several transactions pending and
\* sends and receipt callbacks in any order, a callback changes the entry of its
\* own transaction only and leaves every other entry, also those added since,
\* present and unchanged; the history holds at most 200 entries, newest first,
\* and an entry pushed out by the cap is not put back by its late receipt.
C31_HistoryNoInterference ==
    /\ [](/\ Len(history) <= HistoryLimit
          /\ \A i \in 2 .. Len(history) : history[i - 1].id > history[i].id
          /\ \A i \in DOMAIN history :
                history[i].id \in DOMAIN waiting
                   /\ history[i].status = StatusFor(waiting[history[i].id]))
    /\ [][/\ CallbackTouchesOwnEntry
          /\ SendKeepsNewest
          /\ IdsOf(history') \subseteq
                IdsOf(history) \cup (IF txCount' # txCount THEN {txCount'} ELSE {})]_vars

\* the two oldest transactions were pushed out of the full history by two newer
\* ones; the receipt of the first has arrived since, the second is still waited
\* for, and the newest entry was confirmed while the one before it is pending
C31_Witness ==
    /\ Len(history) = HistoryLimit
    /\ txCount = HistoryLimit + 2
    /\ 1 \notin IdsOf(history)
    /\ 2 \notin IdsOf(history)
    /\ waiting[1] = "receipt 1"
    /\ waiting[2] = "unsettled"
    /\ history[1] = [id |-> txCount, status |-> "confirmed"]
    /\ history[2] = [id |-> txCount - 1, status |-> "pending"]

\* at most one valuation timer is pending
OneTimerPending == Cardinality(renderer.pending) <= 1

\* no refresh is awaiting its balance and price
NoneInFlight == renderer.inflight = {}

\* C32 Valuation refresh ordering, as stated: at most one valuation timer is
\* pending, and once every refresh in flight has completed the panel holds what
\* the most recently started refresh wrote, never what an older refresh wrote
\* on resolving later.
C32_LatestRefreshShown ==
    /\ OneTimerPending
    /\ (NoneInFlight /\ renderer.started > 0) => renderer.panel.by = renderer.started

\* two refreshes were started for different wallets, both have completed, and
\* the panel shows the balance of the wallet of the first while the recipient
\* field still holds the wallet of the second
C32_StaleValuationShown ==
    /\ NoneInFlight
    /\ renderer.pending = {}
    /\ renderer.started = 2
    /\ renderer.panel = [by |-> 1, shows |-> "w1"]
    /\ renderer.field = "w2"

\* the transfer path of _update written out: both sides synced, the tranches
\* moved, then the balances
TrancheAwareTransfer(s, from, to, value, t) ==
    ERC20Update(
        MoveTranches(SyncExpiry(SyncExpiry(s, from, t)[1], to, t)[1], from, to, value),
        from, to, value)

\* every call that can be made in the current state leaves the flag false
CallsLeaveHookOff ==
    /\ \A caller \in Holders, to \in Addr, amount \in Amounts, expiresAt \in Expiries :
          ~MintFlashCall(Storage, caller, to, amount, expiresAt, now).bypassHook
    /\ \A from \in Holders, to \in Addr, amount \in Amounts :
          ~TransferCall(Storage, from, to, amount, now).bypassHook
    /\ \A account \in Addr : ~SyncExpiry(Storage, account, now)[1].bypassHook
    /\ \A accounts \in SweepLists : ~SweepLoop(Storage, accounts, 1, now).bypassHook

\* C33 The _bypassHook flag is false in every state between operations, after
\* every successful or failed mintFlash, transfer, burnExpired and sweepExpired;
\* so a transfer between two accounts always takes the tranche-aware path of
\* _update, never the bypass.
C33_BypassHookOff ==
    /\ bypassHook = FALSE
    /\ CallsLeaveHookOff
    /\ \A from \in Holders, to \in Holders, amount \in Amounts :
          TransferCall(Storage, from, to, amount, now)
             = TrancheAwareTransfer(Storage, from, to, amount, now)

\* sweepExpired has just burned the expired tranches of two accounts, setting
\* and clearing the flag twice, and the flag is false
C33_Witness ==
    /\ last.op = "sweepExpired"
    /\ last.ok
    /\ Len(SelectSeq(events, LAMBDA e : e.name = "ExpiredBalanceBurned")) = 2
    /\ bypassHook = FALSE

====
